---- MODULE Spec2Model ----
(***************************************************************************)
(* Model of the OpenProject forwarding Gateway (src/mcp_agent.py).         *)
(*                                                                         *)
(* One invocation of a Gateway operation is followed from its entry to the *)
(* value it hands back: the operation shapes its inputs into the keyword   *)
(* arguments of a make_request call, Python binds the call, make_request   *)
(* builds request_args and sends, the upstream answers (or the transport   *)
(* fails), make_request normalises the outcome, and the operation returns. *)
(* Python values are modelled as JSON values, dicts as functions from keys *)
(* to JSON values, and exceptions as the handler the code runs for them.   *)
(***************************************************************************)
EXTENDS Integers, Sequences, FiniteSets, TLC

VARIABLES
    pc,         \* position of the invocation being served
    op,         \* the operation invoked: name, enclosing try, return statement
    args,       \* the arguments of the invocation (parameter name -> value)
    call,       \* keyword arguments of the make_request call being bound
    mr,         \* make_request's parameters after binding (lines 18, 37-38)
    wire,       \* the HTTP requests handed to the client, in order
    upstream,   \* what came back for the request in flight
    response,   \* make_request's return value, <<v>> once it has returned
    result,     \* the operation's outcome, <<r>> once it has ended
    fileReads,  \* number of files opened and read by the invocation (the
                \* uploads end at lines 1268 and 1347, before their open())
    catalog,    \* the rows of table api_endpoints in openproject_schema.db
    lookup,     \* the catalog lookup being served and what it returned
    chat,       \* the Orchestrator's conversation (src/pm_launch.py)
    elapsed,    \* seconds the call in flight has waited for the upstream
    server,     \* the module-level names and the invocations served at once
    toolCall    \* the Orchestrator's tool function being run (src/pm_launch.py)

\* the state of a forwarded invocation
gateway ==
    <<pc, op, args, call, mr, wire, upstream, response, result, fileReads>>

\* the state outside a forwarded invocation
others == <<catalog, lookup, chat, elapsed, server, toolCall>>

vars == <<gateway, others>>

----------------------------------------------------------------------------
(* Bounds of the model *)

\* ids given to an operation range over 1..MaxId (optional ids over 0..MaxId)
MaxId == 1

\* an invocation supplies at most MaxSupplied of its None-defaulted parameters
MaxSupplied == 2

(* Program constants *)

\* request_args = {"headers": headers, "timeout": 30.0}
Timeout == 30

----------------------------------------------------------------------------
(* Python / JSON values.  Every value has the same five fields so that any *)
(* two values can be compared: k is the type, n the number (or 0/1 for a   *)
(* bool), s the string, a the list items, o the dict (key -> value).       *)

J(k, n, s, a, o) == [k |-> k, n |-> n, s |-> s, a |-> a, o |-> o]

JNull == J("null", 0, "", <<>>, <<>>)

JBool(b) == J("bool", IF b THEN 1 ELSE 0, "", <<>>, <<>>)

JInt(i) == J("int", i, "", <<>>, <<>>)

JStr(t) == J("str", 0, t, <<>>, <<>>)

JList(items) == J("list", 0, "", items, <<>>)

JObj(fields) == J("obj", 0, "", <<>>, fields)

EmptyDict == [x \in {} |-> JNull]

\* Python truth value of v: None, False, 0, "", [] and {} are falsy
Truthy(v) ==
    CASE v.k = "null" -> FALSE
      [] v.k = "bool" -> v.n = 1
      [] v.k = "int"  -> v.n # 0
      [] v.k = "str"  -> v.s # ""
      [] v.k = "list" -> v.a # <<>>
      [] v.k = "obj"  -> DOMAIN v.o # {}

\* d[key] = val on a dict d
Put(d, key, val) == (key :> val) @@ d

\* "if cond: d[key] = val"
PutIf(cond, d, key, val) == IF cond THEN Put(d, key, val) ELSE d

\* str(i) inside an f-string
Str(i) == ToString(i)

----------------------------------------------------------------------------
(* Strings that the code inspects character by character are sequences of  *)
(* one-character strings.                                                  *)

UpperCase == <<"A", "B", "C", "D", "E", "F", "G", "H", "I", "J", "K", "L", "M",
               "N", "O", "P", "Q", "R", "S", "T", "U", "V", "W", "X", "Y", "Z">>

LowerCase == <<"a", "b", "c", "d", "e", "f", "g", "h", "i", "j", "k", "l", "m",
               "n", "o", "p", "q", "r", "s", "t", "u", "v", "w", "x", "y", "z">>

LowerChar(c) ==
    IF \E i \in 1..26 : UpperCase[i] = c
    THEN LowerCase[CHOOSE i \in 1..26 : UpperCase[i] = c]
    ELSE c

\* str.lower()
StrLower(chars) == [i \in 1..Len(chars) |-> LowerChar(chars[i])]

RECURSIVE Join(_)
Join(chars) == IF chars = <<>> THEN "" ELSE Head(chars) \o Join(Tail(chars))

GET == <<"G", "E", "T">>

POST == <<"P", "O", "S", "T">>

PATCH == <<"P", "A", "T", "C", "H">>

DELETE == <<"D", "E", "L", "E", "T", "E">>

----------------------------------------------------------------------------
(* json.dumps and str.join *)

\* the order in which the keys of a dict are written: Python keeps insertion
\* order, which for the dicts of this program is the order below
KeyOrder == <<"error", "status", "details", "id", "status_id", "project",
              "storage", "subject", "updatedAt", "operator", "values",
              "fileName", "available_paths", "path", "description", "method",
              "request_body", "response", "responses", "raw", "type", "200",
              "201", "404">>

KeysOf(o) == SelectSeq(KeyOrder, LAMBDA key : key \in DOMAIN o)

\* the characters of t from position i on, a quote or backslash escaped
RECURSIVE Escape(_, _)
Escape(t, i) ==
    IF i > Len(t) THEN ""
    ELSE LET c == SubSeq(t, i, i)
         IN  (IF c \in {"\"", "\\"} THEN "\\" \o c ELSE c) \o Escape(t, i + 1)

RECURSIVE JsonDumps(_), DumpItems(_), DumpFields(_, _)

\* json.dumps(v) with the default separators
JsonDumps(v) ==
    CASE v.k = "null" -> "null"
      [] v.k = "bool" -> IF v.n = 1 THEN "true" ELSE "false"
      [] v.k = "int"  -> ToString(v.n)
      [] v.k = "str"  -> "\"" \o Escape(v.s, 1) \o "\""
      [] v.k = "list" -> "[" \o DumpItems(v.a) \o "]"
      [] v.k = "obj"  -> "{" \o DumpFields(v.o, KeysOf(v.o)) \o "}"

DumpItems(items) ==
    IF items = <<>> THEN ""
    ELSE JsonDumps(Head(items))
         \o (IF Len(items) > 1 THEN ", " ELSE "") \o DumpItems(Tail(items))

DumpFields(o, keys) ==
    IF keys = <<>> THEN ""
    ELSE "\"" \o Head(keys) \o "\": " \o JsonDumps(o[Head(keys)])
         \o (IF Len(keys) > 1 THEN ", " ELSE "") \o DumpFields(o, Tail(keys))

RECURSIVE CommaJoin(_)
\* ",".join(items) for a list of strings
CommaJoin(items) ==
    IF items = <<>> THEN ""
    ELSE Head(items).s \o (IF Len(items) > 1 THEN "," ELSE "")
         \o CommaJoin(Tail(items))

----------------------------------------------------------------------------
(* json.loads: a recursive-descent reading of the text, character by       *)
(* character.  A reading step yields the value read and the position after *)
(* it, or ok = FALSE where the text is no JSON.                            *)

Digits == <<"0", "1", "2", "3", "4", "5", "6", "7", "8", "9">>

IsDigit(c) == \E d \in 1..10 : Digits[d] = c

DigitValue(c) == (CHOOSE d \in 1..10 : Digits[d] = c) - 1

\* text[i-1:j] of Python, "" when it runs past the end
Slice(text, i, j) == IF i >= 1 /\ j <= Len(text) THEN SubSeq(text, i, j) ELSE ""

CharAt(text, i) == Slice(text, i, i)

Read(value, next) == [ok |-> TRUE, value |-> value, next |-> next]

NoRead == [ok |-> FALSE, value |-> JNull, next |-> 0]

RECURSIVE SkipSpace(_, _)
SkipSpace(text, i) ==
    IF CharAt(text, i) \in {" ", "\n", "\t", "\r"}
    THEN SkipSpace(text, i + 1) ELSE i

\* the characters of a string literal from position i, up to its closing quote
RECURSIVE ReadString(_, _, _)
ReadString(text, i, acc) ==
    LET c == CharAt(text, i)
    IN  CASE c = ""   -> NoRead
          [] c = "\"" -> Read(JStr(acc), i + 1)
          [] c = "\\" ->
                 IF CharAt(text, i + 1) \in {"\"", "\\", "/"}
                 THEN ReadString(text, i + 2, acc \o CharAt(text, i + 1))
                 ELSE NoRead
          [] OTHER    -> ReadString(text, i + 1, acc \o c)

RECURSIVE ReadDigits(_, _, _)
ReadDigits(text, i, acc) ==
    IF IsDigit(CharAt(text, i))
    THEN ReadDigits(text, i + 1, 10 * acc + DigitValue(CharAt(text, i)))
    ELSE Read(JInt(acc), i)

RECURSIVE ReadValue(_, _), ReadItems(_, _, _), ReadFields(_, _, _)

ReadValue(text, at) ==
    LET i == SkipSpace(text, at)
        c == CharAt(text, i)
    IN  CASE Slice(text, i, i + 3) = "null"  -> Read(JNull, i + 4)
          [] Slice(text, i, i + 3) = "true"  -> Read(JBool(TRUE), i + 4)
          [] Slice(text, i, i + 4) = "false" -> Read(JBool(FALSE), i + 5)
          [] c = "\"" -> ReadString(text, i + 1, "")
          [] IsDigit(c) -> ReadDigits(text, i, 0)
          [] c = "-" /\ IsDigit(CharAt(text, i + 1)) ->
                 LET r == ReadDigits(text, i + 1, 0)
                 IN  Read(JInt(0 - r.value.n), r.next)
          [] c = "[" ->
                 IF CharAt(text, SkipSpace(text, i + 1)) = "]"
                 THEN Read(JList(<<>>), SkipSpace(text, i + 1) + 1)
                 ELSE ReadItems(text, i + 1, <<>>)
          [] c = "{" ->
                 IF CharAt(text, SkipSpace(text, i + 1)) = "}"
                 THEN Read(JObj(EmptyDict), SkipSpace(text, i + 1) + 1)
                 ELSE ReadFields(text, i + 1, EmptyDict)
          [] OTHER -> NoRead

\* the items of a list, the next of them at position at
ReadItems(text, at, acc) ==
    LET r == ReadValue(text, at)
        j == SkipSpace(text, r.next)
    IN  IF ~r.ok THEN NoRead
        ELSE CASE CharAt(text, j) = "," ->
                      ReadItems(text, j + 1, Append(acc, r.value))
               [] CharAt(text, j) = "]" ->
                      Read(JList(Append(acc, r.value)), j + 1)
               [] OTHER -> NoRead

\* the "key": value pairs of an object, the next of them at position at;
\* a key read twice keeps the later value
ReadFields(text, at, acc) ==
    LET i == SkipSpace(text, at)
        key == IF CharAt(text, i) = "\"" THEN ReadString(text, i + 1, "")
               ELSE NoRead
        colon == SkipSpace(text, key.next)
        r == ReadValue(text, colon + 1)
        j == SkipSpace(text, r.next)
    IN  IF ~key.ok \/ CharAt(text, colon) # ":" THEN NoRead
        ELSE IF ~r.ok THEN NoRead
        ELSE CASE CharAt(text, j) = "," ->
                      ReadFields(text, j + 1, Put(acc, key.value.s, r.value))
               [] CharAt(text, j) = "}" ->
                      Read(JObj(Put(acc, key.value.s, r.value)), j + 1)
               [] OTHER -> NoRead

\* json.loads(text): the decoded value, or a JSONDecodeError (ok = FALSE)
JsonLoads(text) ==
    LET r == ReadValue(text, 1)
    IN  IF r.ok /\ SkipSpace(text, r.next) = Len(text) + 1
        THEN [ok |-> TRUE, value |-> r.value]
        ELSE [ok |-> FALSE, value |-> JNull]

----------------------------------------------------------------------------
(* Module-level names of src/mcp_agent.py *)

\* from config import host
host == "config.host"

\* from config import xcred as api_key
api_key == "config.xcred"

USER_AGENT == "Mozilla/5.0 (Windows NT 10.0; Win64; x64) AppleWebKit/537.36 (KHTML, like Gecko) Chrome/91.0.4472.124 Safari/537.36"

\* the headers dict every JSON operation builds
JsonHeaders ==
    JObj(("Authorization" :> JStr("Basic " \o api_key))
         @@ ("Content-Type" :> JStr("application/json")))

\* f"https://{host}{path}"
Url(path) == "https://" \o host \o path

----------------------------------------------------------------------------
(* The upstream and the transport *)

HttpResponse(status, text) ==
    [kind |-> "response", status |-> status, text |-> text, exc |-> ""]

TransportFailure(exc, text) ==
    [kind |-> "transport", status |-> 0, text |-> text, exc |-> exc]

\* what one network call can come back with: a status line and body text,
\* or an exception of the transport (connection refused, 30 s timeout)
UpstreamOutcomes ==
    { HttpResponse(200, "{\"id\": 1}"),
      HttpResponse(200, "[]"),
      HttpResponse(201, "{\"id\": 1}"),
      HttpResponse(204, ""),
      HttpResponse(301, ""),
      HttpResponse(404, "Not Found"),
      HttpResponse(422, "{\"id\": 1}"),
      HttpResponse(500, ""),
      TransportFailure("ConnectError", "All connection attempts failed"),
      TransportFailure("ReadTimeout", "") }

\* httpx Response.is_success, the test of raise_for_status()
IsSuccess(status) == 200 <= status /\ status <= 299

----------------------------------------------------------------------------
(* make_request, src/mcp_agent.py lines 18-68 *)

\* the parameters make_request declares
MakeRequestParams == {"url", "method", "headers", "data", "params"}

\* the verbs httpx.AsyncClient answers to as client.<verb>(url, **request_args)
ClientVerbs == {"get", "options", "head", "post", "put", "patch", "delete"}

\* method_lower in ["get", "delete", "head", "options"]
NoBodyVerbs == {"get", "delete", "head", "options"}

\* except httpx.HTTPStatusError as e
HttpErrorRecord(status, text) ==
    JObj([error |-> JStr("HTTP error"), status |-> JInt(status),
          details |-> JStr(text)])

\* except Exception as e
RequestFailedRecord(text) ==
    JObj([error |-> JStr("Request failed"), details |-> JStr(text)])

\* RequestArgs with the verb tested as the caller wrote it (no .lower())
RequestArgsCaseSensitive(m) ==
    LET base == ("headers" :> m.headers) @@ ("timeout" :> JInt(Timeout))
    IN  IF Join(m.method) \in NoBodyVerbs
        THEN Put(base, "params", IF Truthy(m.data) THEN m.data ELSE m.params)
        ELSE PutIf(Truthy(m.params), Put(base, "json", m.data),
                   "params", m.params)

\* lines 41-51: request_args for a bound call m
RequestArgs(m) ==
    LET method_lower == Join(StrLower(m.method))
        base == ("headers" :> m.headers) @@ ("timeout" :> JInt(Timeout))
    IN  IF method_lower \in NoBodyVerbs
        THEN Put(base, "params", IF Truthy(m.data) THEN m.data ELSE m.params)
        ELSE PutIf(Truthy(m.params), Put(base, "json", m.data),
                   "params", m.params)

\* lines 54-68: the value make_request returns for an outcome of the call
Normalise(o) ==
    IF o.kind = "transport"
    THEN RequestFailedRecord(o.text)
    ELSE IF ~IsSuccess(o.status)
         THEN HttpErrorRecord(o.status, o.text)
         ELSE IF JsonLoads(o.text).ok
              THEN JsonLoads(o.text).value
              ELSE RequestFailedRecord("Expecting value: line 1 column 1 (char 0)")

----------------------------------------------------------------------------
(* What an operation hands back *)

\* return json.dumps(value)
JsonText(value) ==
    [kind |-> "return", type |-> "str", format |-> "json",
     text |-> JsonDumps(value), value |-> value]

\* return f"{text}..." : a plain sentence, with value interpolated or JNull
PlainText(text, value) ==
    [kind |-> "return", type |-> "str", format |-> "text", text |-> text,
     value |-> value]

\* type(value).__name__ of a value decoded from JSON
TypeName(value) ==
    CASE value.k = "obj"  -> "dict"
      [] value.k = "list" -> "list"
      [] value.k = "str"  -> "str"
      [] value.k = "int"  -> "int"
      [] value.k = "bool" -> "bool"
      [] value.k = "null" -> "NoneType"

\* return value : the value itself, a dict, or whatever else
\* response.json() decoded (a list for the body "[]")
Object(value) ==
    [kind |-> "return", type |-> TypeName(value), format |-> "object",
     text |-> "", value |-> value]

\* an exception leaves the operation
Raised(exc) ==
    [kind |-> "raise", type |-> exc, format |-> "none", text |-> "",
     value |-> JNull]

----------------------------------------------------------------------------
(* Arguments of an invocation *)

Ids == { JInt(i) : i \in 1..MaxId }

OptIds == { JInt(i) : i \in 0..MaxId }

Strs == { JStr(""), JStr("x") }

Bools == { JBool(FALSE), JBool(TRUE) }

SubsetsUpTo(S, m) == { T \in SUBSET S : Cardinality(T) <= m }

\* all ways to give each parameter in S a value of its domain dom[p]
RECURSIVE Choices(_, _)
Choices(dom, S) ==
    IF S = {}
    THEN { EmptyDict }
    ELSE LET p == CHOOSE x \in S : TRUE
         IN  { (p :> v) @@ g : v \in dom[p], g \in Choices(dom, S \ {p}) }

\* the ways to supply at most MaxSupplied of the None-defaulted parameters
\* of opt; those not supplied are None
Optional(opt) ==
    UNION { { g @@ [p \in DOMAIN opt |-> JNull] : g \in Choices(opt, S) } :
            S \in SubsetsUpTo(DOMAIN opt, MaxSupplied) }

\* the argument lists of an operation: every parameter of req has a value
Inputs(req, opt) ==
    { r @@ g : r \in Choices(req, DOMAIN req), g \in Optional(opt) }

NoParams == [x \in {} |-> {}]

----------------------------------------------------------------------------
(* The endpoint catalog: table api_endpoints(path, method, description,    *)
(* request_body, responses), the last two columns holding JSON text, or    *)
(* the text "None" for an endpoint without a request body.                 *)

\* a table has at most MaxRows rows
MaxRows == 2

Row(path, method, description, request_body, responses) ==
    [path |-> path, method |-> method, description |-> description,
     request_body |-> request_body, responses |-> responses]

\* rows as the catalog of the OpenProject API holds them
KnownRows ==
    << Row("/api/v3/projects", "GET", "List projects", "None",
           "{\"200\": {\"description\": \"OK\"}}"),
       Row("/api/v3/projects/{id}", "PATCH", "Update project",
           "{\"type\": \"object\"}",
           "{\"200\": {\"description\": \"OK\"}, \"404\": {}}"),
       Row("/api/v3/work_packages", "POST", "Create work package",
           "{\"type\": \"object\"}", "{\"201\": {}}"),
       Row("/api/v3/work_packages/{id}/watchers", "GET", "List watchers",
           "None", "{}"),
       Row("/api/v3/users", "GET", "List users", "None", "[]") >>

\* the rows of KnownRows numbered in S, in rowid order
RECURSIVE Table(_)
Table(S) ==
    IF S = {} THEN <<>>
    ELSE LET last == CHOOSE i \in S : \A j \in S : j <= i
         IN  Append(Table(S \ {last}), KnownRows[last])

Tables ==
    { Table(S) : S \in SubsetsUpTo(1..Len(KnownRows), MaxRows) }

Installed == Table(1..MaxRows)

\* what a caller types to search the catalog
Queries ==
    { "projects", "Projects", "work_packages", "a_i", "%", "{id}",
      "attachments", "" }

\* SQLite "text LIKE pattern" from positions j and i on: % stands for any
\* run of characters, _ for any one character, and letters match in either
\* case
RECURSIVE Like(_, _, _, _)
Like(text, pattern, j, i) ==
    LET p == CharAt(pattern, i)
    IN  CASE i > Len(pattern) -> j > Len(text)
          [] p = "%" -> \/ Like(text, pattern, j, i + 1)
                        \/ j <= Len(text) /\ Like(text, pattern, j + 1, i)
          [] j > Len(text) -> FALSE
          [] p = "_" -> Like(text, pattern, j + 1, i + 1)
          [] OTHER -> /\ LowerChar(p) = LowerChar(CharAt(text, j))
                      /\ Like(text, pattern, j + 1, i + 1)

\* SELECT ... FROM api_endpoints WHERE path LIKE ?, (f"%{query}%",)
Select(table, query) ==
    SelectSeq(table, LAMBDA row : Like(row.path, "%" \o query \o "%", 1, 1))

\* what a lookup hands back: a value, or the exception that left it
Returned(value) == [kind |-> "return", value |-> value]

Failed(exc) == [kind |-> "raise", value |-> JStr(exc)]

\* src/query_db.py lines 4-14: the fetched rows as they are
QueryDbSearchEndpoint(table, query) ==
    LET results == Select(table, query)
    IN  Returned(JList([i \in 1..Len(results) |->
            JList(<<JStr(results[i].path), JStr(results[i].method),
                    JStr(results[i].description),
                    JStr(results[i].request_body),
                    JStr(results[i].responses)>>)]))

\* SearchEndpoint that decodes request_body whatever its text
SearchEndpointDecodesAll(table, query) ==
    LET results == Select(table, query)
        entry(row) ==
            JObj([path |-> JStr(row.path), method |-> JStr(row.method),
                  description |-> JStr(row.description),
                  request_body |-> JsonLoads(row.request_body).value,
                  responses |-> JsonLoads(row.responses).value])
    IN  IF \E i \in 1..Len(results) :
               \/ ~JsonLoads(results[i].request_body).ok
               \/ ~JsonLoads(results[i].responses).ok
        THEN Failed("JSONDecodeError")
        ELSE Returned(JList([i \in 1..Len(results) |-> entry(results[i])]))

\* src/mcp_agent.py lines 1905-1929: one dict per fetched row; json.loads
\* raises on a text that is no JSON
SearchEndpoint(table, query) ==
    LET results == Select(table, query)
        body(row) == IF row.request_body # "None"
                     THEN JsonLoads(row.request_body)
                     ELSE [ok |-> TRUE, value |-> JNull]
        entry(row) ==
            JObj([path |-> JStr(row.path), method |-> JStr(row.method),
                  description |-> JStr(row.description),
                  request_body |-> body(row).value,
                  responses |-> JsonLoads(row.responses).value])
    IN  IF \E i \in 1..Len(results) :
               ~body(results[i]).ok \/ ~JsonLoads(results[i].responses).ok
        THEN Failed("JSONDecodeError")
        ELSE Returned(JList([i \in 1..Len(results) |-> entry(results[i])]))

\* src/mcp_agent.py lines 1931-1955
QueryApi(table, query) ==
    LET found == SearchEndpoint(table, query)
        results == found.value.a
        available_paths ==
            [i \in 1..Len(results) |->
                JObj([path |-> results[i].o.path,
                      description |-> results[i].o.description,
                      method |-> results[i].o.method,
                      request_body |-> results[i].o.request_body,
                      response |-> results[i].o.responses])]
    IN  IF found.kind = "raise" THEN found
        ELSE IF results = <<>>
             THEN Returned(JStr(JsonDumps(
                      JObj([error |-> JStr("No matching endpoints found")]))))
             ELSE Returned(JStr(JsonDumps(
                      JObj([available_paths |-> JList(available_paths)]))))

NoLookup == [pc |-> "idle", name |-> "", query |-> "", result |-> <<>>]

Lookup(name, query, outcome) ==
    [pc |-> "done", name |-> name, query |-> query, result |-> <<outcome>>]

----------------------------------------------------------------------------
(* The Orchestrator's tool functions (src/pm_launch.py lines 20-177).      *)
(* Each one builds a JSON payload, posts it once to the Gateway at         *)
(* PM_BASE_URL/<function name> and returns what its try statement yields.  *)

PM_BASE_URL == "http://172.18.33.132:8034"

pm_headers == JObj("Content-Type" :> JStr("application/json"))

\* nothing is being run
NoTool ==
    [pc |-> "idle", name |-> "", args |-> EmptyDict, posts |-> <<>>,
     answer |-> <<>>, result |-> <<>>]

\* datetime.now().isoformat() at the time of the call
Clock == { "2026-01-01T00:00:00" }

\* the functions whose try body calls response.raise_for_status()
RaisesForStatus ==
    { "list_projects", "view_work_package", "comment_work_package",
      "list_statuses" }

\* the functions whose handler is "except Exception"; the others have
\* "except requests.exceptions.RequestException"
CatchesException ==
    { "get_project_work_packages", "create_project", "create_work_package",
      "update_work_package" }

\* a requests in which response.json() raises a plain ValueError
IsRequestExceptionWithoutJson(type) == type \in { "ConnectionError", "HTTPError" }

\* requests.exceptions: ConnectionError, HTTPError and JSONDecodeError
\* (through InvalidJSONError) derive from RequestException
IsRequestException(type) ==
    type \in { "ConnectionError", "HTTPError", "JSONDecodeError" }

\* does the function's except clause take an exception of this type
Catches(name, type) == name \in CatchesException \/ IsRequestException(type)

\* what the Gateway can come back with for one POST: a status line and body
\* text, or no answer at all; its error bodies are JSON objects or plain text
GatewayAnswers ==
    { HttpResponse(200, "{\"id\": 1}"),
      HttpResponse(200, "[]"),
      HttpResponse(200, ""),
      HttpResponse(422, "{\"detail\": \"bad\"}"),
      HttpResponse(500, "Internal Server Error"),
      TransportFailure("ConnectionError", "Connection refused") }

\* the reason phrase of the status line
Reason(status) ==
    CASE status = 422 -> "Unprocessable Entity"
      [] status = 500 -> "Internal Server Error"
      [] OTHER -> "OK"

\* requests Response.raise_for_status(): the message of the HTTPError for a
\* status in 400..599, "" for any other status
HTTPErrorMessage(status, url) ==
    IF 400 <= status /\ status < 500
    THEN Str(status) \o " Client Error: " \o Reason(status)
             \o " for url: " \o url
    ELSE IF 500 <= status /\ status < 600
    THEN Str(status) \o " Server Error: " \o Reason(status)
             \o " for url: " \o url
    ELSE ""

NoException == [type |-> "", text |-> ""]

\* the payload of each function
ToolPayload(name, a, now) ==
    CASE name = "list_projects" ->
           IF Truthy(a.filters) THEN a.filters ELSE JObj(EmptyDict)
      [] name = "get_project_work_packages" ->
           JObj(PutIf(Truthy(a.sort_by),
                  PutIf(Truthy(a.filters),
                    [project_id |-> a.project_id, offset |-> a.offset,
                     page_size |-> a.page_size],
                    "filters", a.filters),
                  "sort_by", a.sort_by))
      [] name = "create_project" ->
           JObj(PutIf(Truthy(a.status_explanation),
                  PutIf(Truthy(a.identifier),
                    PutIf(Truthy(a.description),
                      [name |-> a.name, public |-> a.public],
                      "description", a.description),
                    "identifier", a.identifier),
                  "status_explanation", a.status_explanation))
      [] name = "create_work_package" ->
           JObj(PutIf(Truthy(a.priority_id),
                  PutIf(Truthy(a.type_id),
                    PutIf(Truthy(a.status_id),
                      PutIf(Truthy(a.description),
                        [project_id |-> a.project_id, subject |-> a.subject,
                         notify |-> a.notify],
                        "description", a.description),
                      "status_id", a.status_id),
                    "type_id", a.type_id),
                  "priority_id", a.priority_id))
      [] name = "update_work_package" ->
           JObj(PutIf(a.percentage_done # JNull,
                  PutIf(Truthy(a.description),
                    PutIf(Truthy(a.status_id),
                      [work_package_id |-> a.work_package_id,
                       lock_version |-> a.lock_version, notify |-> a.notify],
                      "status_id", a.status_id),
                    "description", a.description),
                  "percentage_done", a.percentage_done))
      [] name = "view_work_package" ->
           JObj([work_package_id |-> a.work_package_id,
                 timestamps |-> JList(<<JStr(now)>>)])
      [] name = "comment_work_package" ->
           JObj([work_package_id |-> a.work_package_id,
                 comment_text |-> a.comment_text, notify |-> a.notify])
      [] name = "list_statuses" -> JObj(EmptyDict)

\* str() of a work package id inside the f-string of line 159
IdText(v) == IF v.k = "int" THEN Str(v.n) ELSE "None"

\* the text each handler puts in front of str(e)
ToolMessage(name, a) ==
    CASE name = "list_projects" -> "Failed to retrieve projects list: "
      [] name = "view_work_package" -> "Failed to retrieve work package: "
      [] name = "comment_work_package" ->
           "Failed to add comment to WP " \o IdText(a.work_package_id) \o ": "
      [] name = "list_statuses" -> "Failed to retrieve statuses: "
      [] OTHER -> ""

\* the exception the try body ends with, if any: requests.post fails, or
\* raise_for_status() raises where it is called, or response.json() cannot
\* decode the body
ToolRaises(name, answer) ==
    IF answer.kind = "transport"
    THEN [type |-> answer.exc, text |-> answer.text]
    ELSE IF name \in RaisesForStatus
            /\ HTTPErrorMessage(answer.status, PM_BASE_URL \o "/" \o name) # ""
    THEN [type |-> "HTTPError",
          text |-> HTTPErrorMessage(answer.status, PM_BASE_URL \o "/" \o name)]
    ELSE IF ~JsonLoads(answer.text).ok
    THEN [type |-> "JSONDecodeError",
          text |-> "Expecting value: line 1 column 1 (char 0)"]
    ELSE NoException

\* the outcome of the function's try statement for the Gateway's answer
ToolReturn(name, a, answer) ==
    LET e == ToolRaises(name, answer)
    IN  IF e = NoException
        THEN Returned(JsonLoads(answer.text).value)
        ELSE IF Catches(name, e.type)
        THEN Returned(JObj("error" :> JStr(ToolMessage(name, a) \o e.text)))
        ELSE Failed(e.type)

----------------------------------------------------------------------------
(* The Orchestrator's conversation (src/pm_launch.py).  The script builds  *)
(* three participants, puts them in a GroupChat with max_round = 10 and    *)
(* starts the exchange with user_proxy.initiate_chat(manager, ...).  The   *)
(* manager's loop takes one message per round: it appends the message,     *)
(* stops at the round limit, picks the next speaker and asks it to reply;  *)
(* the speaker first applies its is_termination_msg to the last message.   *)

\* src/pm_launch.py line 380
max_round == 10

\* Python's "query in text" on str
Contains(text, query) ==
    \/ query = ""
    \/ \E i \in 1..(Len(text) - Len(query) + 1) :
           SubSeq(text, i, i + Len(query) - 1) = query

\* str.lower() on a str, from its i-th character on
RECURSIVE LoweredFrom(_, _)
LoweredFrom(text, i) ==
    IF i > Len(text) THEN ""
    ELSE LowerChar(CharAt(text, i)) \o LoweredFrom(text, i + 1)

Lowered(text) == LoweredFrom(text, 1)

user_proxy == "Automated Systems User"

assistant == "Astra-Mini"

assistantGM == "GraniteMan"

\* groupchat.agents
Agents == <<user_proxy, assistant, assistantGM>>

Participants == { Agents[i] : i \in 1..Len(Agents) }

\* a message dict: "content" may be missing or None, "tool_calls" is there
\* when the model asked for a tool
Message(name, content, tool) ==
    [name |-> name, content |-> content, tool_calls |-> tool]

Bare(name, tool) == [name |-> name, tool_calls |-> tool]

\* msg.get("content")
Get(msg, key) == IF key \in DOMAIN msg THEN msg[key] ELSE JNull

\* is_done that compares without lowering the content
is_done_exact_case(msg) ==
    LET content == IF Truthy(Get(msg, "content"))
                   THEN Get(msg, "content").s ELSE ""
    IN  Contains(content, "task complete")

\* src/pm_launch.py lines 179-181
is_done(msg) ==
    LET content == Lowered(IF Truthy(Get(msg, "content"))
                           THEN Get(msg, "content").s ELSE "")
    IN  Contains(content, "task complete")

\* what the user may type as the task
Questions ==
    {"", "list the projects", "say TASK COMPLETE when done", "TERMINATE"}

\* what a language model may answer
Answers ==
    {JNull, JStr(""), JStr("on it"), JStr("TASK COMPLETE"),
     JStr("Done. Task Complete."), JStr("task-complete"), JStr("TERMINATE")}

\* what a tool may hand back to the conversation
ToolResults == {JStr("{}"), JStr("{\"subject\": \"Task complete\"}")}

NoMessage == Message("", JNull, FALSE)

NoChat ==
    [pc |-> "idle", round |-> 0, message |-> NoMessage, busy |-> {},
     executed |-> 0]

----------------------------------------------------------------------------
(* Invocations served at once.  The operations are coroutines of one       *)
(* event loop: while one awaits its network call another may start, send   *)
(* and finish.  What they could share is the module: host, api_key and     *)
(* USER_AGENT (lines 7-15), read by each invocation when it builds its URL *)
(* and headers and by make_request when it stores the User-Agent.          *)

\* invocations in progress at once
MaxTasks == 2

Tasks == 1..MaxTasks

\* the module's global names
Module == [host |-> host, api_key |-> api_key, USER_AGENT |-> USER_AGENT]

NoTask ==
    [pc |-> "idle", name |-> "", args |-> EmptyDict, url |-> "",
     headers |-> JNull, wire |-> <<>>, upstream |-> <<>>,
     response |-> <<>>, result |-> <<>>]

NoServer == [module |-> Module, tasks |-> [t \in Tasks |-> NoTask]]

\* the operations served side by side in the model, with their arguments
TaskInputs ==
    [view_project |-> Inputs([project_id |-> Ids], NoParams),
     remove_work_package_watcher |->
         Inputs([work_package_id |-> Ids, user_id |-> Ids], NoParams),
     run_api |-> Inputs([query |-> {JStr("/projects")},
                         method |-> {JStr("GET")}], NoParams)]

TaskMethod(name) ==
    IF name = "remove_work_package_watcher" THEN DELETE ELSE GET

\* the path after f"https://{host}"
TaskPath(name, a) ==
    CASE name = "view_project" -> "/api/v3/projects/" \o Str(a.project_id.n)
      [] name = "remove_work_package_watcher" ->
             "/api/v3/work_packages/" \o Str(a.work_package_id.n)
             \o "/watchers/" \o Str(a.user_id.n)
      [] name = "run_api" -> a.query.s

\* run_api's api_key = f"Basic {api_key}" under a "global api_key"
\* declaration: the module's name is rebound
RebindGlobal(m) == [m EXCEPT !.api_key = "Basic " \o @]

\* line 90, api_key = f"Basic {api_key}": an assignment inside a function
\* binds a local name and leaves the module's name alone
Rebind(m) == m

----------------------------------------------------------------------------
(* The steps every invocation shares *)

\* an operation: whether its make_request call stands in a try block with
\* "except Exception as e: return f'<err>: {str(e)}'", and how it returns
Operation(name, try, tail, err, ok) ==
    [name |-> name, try |-> try, tail |-> tail, err |-> err, ok |-> ok]

NoOperation == Operation("", FALSE, "", "", "")

\* the operation has shaped its inputs and evaluates make_request(**kw)
CallSite(o, a, kw) ==
    /\ pc' = "call"
    /\ op' = o
    /\ args' = a
    /\ call' = kw
    /\ UNCHANGED <<mr, wire, upstream, response, result, fileReads, others>>

\* the operation ends before any make_request call, with outcome r
Ends(o, a, r) ==
    /\ pc' = "done"
    /\ op' = o
    /\ args' = a
    /\ result' = <<r>>
    /\ UNCHANGED <<call, mr, wire, upstream, response, fileReads, others>>

Kw(kw, key) == IF key \in DOMAIN kw THEN kw[key] ELSE JNull

\* str(e) of the TypeError Python raises for a keyword make_request lacks
UnexpectedKeyword(key) ==
    "make_request() got an unexpected keyword argument '" \o key \o "'"

\* lines 18, 37-38: Python binds the call; a keyword that make_request does
\* not declare is a TypeError in the caller, which its except clause turns
\* into text.  Otherwise "headers = headers or {}" and the User-Agent is
\* stored in that dict, which is the caller's dict when it passed one.
BindCall ==
    /\ pc = "call"
    /\ LET unexpected == DOMAIN call \ MakeRequestParams
           hdrs == Put(IF Truthy(Kw(call, "headers"))
                       THEN Kw(call, "headers").o ELSE EmptyDict,
                       "User-Agent", JStr(USER_AGENT))
       IN  IF unexpected # {}
           THEN /\ pc' = "done"
                /\ result' =
                     << IF op.try
                        THEN PlainText(op.err \o ": " \o UnexpectedKeyword(
                                 CHOOSE k \in unexpected : TRUE), JNull)
                        ELSE Raised("TypeError") >>
                /\ UNCHANGED <<call, mr>>
           ELSE /\ pc' = "request"
                /\ mr' = [url |-> call.url, method |-> call.method,
                          headers |-> JObj(hdrs),
                          data |-> Kw(call, "data"),
                          params |-> Kw(call, "params")]
                /\ call' = IF Truthy(Kw(call, "headers"))
                           THEN [call EXCEPT !.headers = JObj(hdrs)]
                           ELSE call
                /\ UNCHANGED result
    /\ UNCHANGED <<op, args, wire, upstream, response, fileReads, others>>

\* make_request_send with the lookup of client.<method_lower> outside the
\* try block: a name the client lacks leaves make_request as an exception
make_request_send_unguarded ==
    /\ pc = "request"
    /\ LET method_lower == Join(StrLower(mr.method))
       IN  IF method_lower \in ClientVerbs
           THEN /\ wire' = Append(wire, [verb |-> method_lower, url |-> mr.url,
                                         request_args |-> RequestArgs(mr)])
                /\ pc' = "await"
                /\ UNCHANGED result
           ELSE /\ result' = << Raised("AttributeError") >>
                /\ pc' = "done"
                /\ UNCHANGED wire
    /\ UNCHANGED <<op, args, call, mr, upstream, response, fileReads, others>>

\* lines 39-53: request_args is built and client.<method_lower> is looked
\* up and called once; a name the client lacks raises inside the try and
\* becomes a "Request failed" record with nothing sent
make_request_send ==
    /\ pc = "request"
    /\ LET method_lower == Join(StrLower(mr.method))
       IN  IF method_lower \in ClientVerbs
           THEN /\ wire' = Append(wire, [verb |-> method_lower, url |-> mr.url,
                                         request_args |-> RequestArgs(mr)])
                /\ pc' = "await"
                /\ UNCHANGED response
           ELSE /\ response' = << RequestFailedRecord(
                      "'AsyncClient' object has no attribute '"
                      \o method_lower \o "'") >>
                /\ pc' = "return"
                /\ UNCHANGED wire
    /\ UNCHANGED <<op, args, call, mr, upstream, result, fileReads, others>>

\* the upstream answers, or the transport gives up (refusal, 30 s timeout)
UpstreamReplies ==
    /\ pc = "await"
    /\ \E o \in UpstreamOutcomes : upstream' = o
    /\ pc' = "respond"
    /\ UNCHANGED <<op, args, call, mr, wire, response, result, fileReads, others>>

\* make_request_receive that sends again after a transport failure
make_request_receive_retry ==
    /\ pc = "respond"
    /\ IF upstream.kind = "transport"
       THEN pc' = "request" /\ UNCHANGED response
       ELSE pc' = "return" /\ response' = << Normalise(upstream) >>
    /\ UNCHANGED <<op, args, call, mr, wire, upstream, result, fileReads, others>>

\* lines 54-68: raise_for_status, response.json() and the two except clauses
make_request_receive ==
    /\ pc = "respond"
    /\ response' = << Normalise(upstream) >>
    /\ pc' = "return"
    /\ UNCHANGED <<op, args, call, mr, wire, upstream, result, fileReads, others>>

\* the statement after "response = await make_request(...)"
ReturnValue(o, r) ==
    CASE o.tail = "dumps" -> JsonText(r)
      [] o.tail = "text"  -> PlainText(o.ok, r)
      [] o.tail = "raw"   -> Object(r)

OperationReturns ==
    /\ pc = "return"
    /\ result' = << ReturnValue(op, response[1]) >>
    /\ pc' = "done"
    /\ UNCHANGED <<op, args, call, mr, wire, upstream, response, fileReads, others>>

Init ==
    /\ pc = "idle"
    /\ op = NoOperation
    /\ args = EmptyDict
    /\ call = <<>>
    /\ mr = <<>>
    /\ wire = <<>>
    /\ upstream = <<>>
    /\ response = <<>>
    /\ result = <<>>
    /\ fileReads = 0
    /\ catalog = Installed
    /\ lookup = NoLookup
    /\ chat = NoChat
    /\ elapsed = 0
    /\ server = NoServer
    /\ toolCall = NoTool

\* the server is ready for the next call; nothing of the last one is kept
NextInvocation ==
    /\ pc = "done"
    /\ pc' = "idle"
    /\ op' = NoOperation
    /\ args' = EmptyDict
    /\ call' = <<>>
    /\ mr' = <<>>
    /\ wire' = <<>>
    /\ upstream' = <<>>
    /\ response' = <<>>
    /\ result' = <<>>
    /\ fileReads' = 0
    /\ UNCHANGED others

----------------------------------------------------------------------------
(* make_request called on its own *)

Methods ==
    { GET, <<"g", "e", "t">>, <<"G", "e", "t">>, DELETE,
      <<"H", "E", "A", "D">>, <<"o", "p", "t", "i", "o", "n", "s">>,
      POST, <<"p", "o", "s", "t">>, <<"P", "U", "T">>, PATCH,
      <<"T", "R", "A", "C", "E">> }

Dicts(key) == { JNull, JObj(EmptyDict), JObj(key :> JStr("v")) }

make_request ==
    /\ pc = "idle"
    /\ \E method \in Methods, headers \in {JNull, JsonHeaders},
          data \in Dicts("d"), params \in Dicts("p") :
         CallSite(Operation("make_request", FALSE, "raw", "", ""),
                  [method |-> JStr(Join(method)), headers |-> headers,
                   data |-> data, params |-> params],
                  [url |-> Url("/api/v3"), method |-> method,
                   headers |-> headers, data |-> data, params |-> params])

\* RawText that hands the caller's string over as it is
RawTextBare(t) == t

\* {"raw": text}: the wrapper of a rich-text field
RawText(t) == JObj([raw |-> t])

----------------------------------------------------------------------------
(* Projects *)

\* lines 100-156
create_project ==
    /\ pc = "idle"
    /\ \E a \in Inputs([name |-> {JStr("P")}, public |-> Bools],
                       [description |-> Strs, identifier |-> Strs,
                        status_explanation |-> Strs]) :
         LET markdown(t) == JObj([format |-> JStr("markdown"), raw |-> t])
             p0 == [name |-> a.name, identifier |-> a.identifier,
                    public |-> a.public, active |-> JBool(TRUE),
                    _type |-> JStr("Project")]
             p1 == PutIf(Truthy(a.description), p0,
                         "description", markdown(a.description))
             payload == PutIf(Truthy(a.status_explanation), p1,
                              "statusExplanation",
                              markdown(a.status_explanation))
         IN  CallSite(Operation("create_project", TRUE, "dumps",
                                "Error creating project", ""),
                      a,
                      [url |-> Url("/api/v3/projects"), method |-> POST,
                       headers |-> JsonHeaders, json |-> JObj(payload)])

\* lines 158-193
view_project ==
    /\ pc = "idle"
    /\ \E a \in Inputs([project_id |-> Ids], NoParams) :
         CallSite(Operation("view_project", TRUE, "dumps",
                            "Error retrieving project "
                            \o Str(a.project_id.n), ""),
                  a,
                  [url |-> Url("/api/v3/projects/" \o Str(a.project_id.n)),
                   method |-> GET, headers |-> JsonHeaders])

\* lines 195-214: no try block, and the dict is returned as it is
list_projects ==
    /\ pc = "idle"
    /\ CallSite(Operation("list_projects", FALSE, "raw", "", ""),
                EmptyDict,
                [url |-> Url("/api/v3/projects"), method |-> GET,
                 headers |-> JsonHeaders])

\* lines 216-251
list_statuses ==
    /\ pc = "idle"
    /\ CallSite(Operation("list_statuses", TRUE, "dumps",
                          "Error retrieving work package statuses", ""),
                EmptyDict,
                [url |-> Url("/api/v3/statuses"), method |-> GET,
                 headers |-> JsonHeaders])

\* lines 253-327
update_project ==
    /\ pc = "idle"
    /\ \E a \in Inputs([project_id |-> Ids],
                       [name |-> Strs, description |-> Strs,
                        identifier |-> Strs, public |-> Bools,
                        active |-> Bools, status_explanation |-> Strs]) :
         LET o == Operation("update_project", TRUE, "dumps",
                            "Error updating project " \o Str(a.project_id.n),
                            "")
             p1 == PutIf(a.name # JNull, EmptyDict, "name", a.name)
             p2 == PutIf(a.identifier # JNull, p1, "identifier", a.identifier)
             p3 == PutIf(a.public # JNull, p2, "public", a.public)
             p4 == PutIf(a.active # JNull, p3, "active", a.active)
             p5 == PutIf(a.description # JNull, p4, "description",
                         RawText(a.description))
             payload == PutIf(a.status_explanation # JNull, p5,
                              "statusExplanation",
                              RawText(a.status_explanation))
         IN  IF ~Truthy(JObj(payload))
             THEN Ends(o, a, PlainText("No update fields provided. Please specify at least one field to change.", JNull))
             ELSE CallSite(o, a,
                      [url |-> Url("/api/v3/projects/" \o Str(a.project_id.n)),
                       method |-> PATCH, headers |-> JsonHeaders,
                       json |-> JObj(payload)])

\* lines 329-366
view_project_status ==
    /\ pc = "idle"
    /\ \E a \in Inputs([status_id |-> Ids], NoParams) :
         CallSite(Operation("view_project_status", TRUE, "dumps",
                            "Error retrieving project status "
                            \o Str(a.status_id.n), ""),
                  a,
                  [url |-> Url("/api/v3/project_statuses/"
                               \o Str(a.status_id.n)),
                   method |-> GET, headers |-> JsonHeaders])

\* a filter as the docstrings give it: [{"status": {"operator": "=", ...}}]
StatusFilter ==
    JObj([status |-> JObj([operator |-> JStr("="),
                           values |-> JList(<<JStr("1")>>)])])

\* a filter whose value holds a quote and a backslash
SubjectFilter ==
    JObj([subject |-> JObj([operator |-> JStr("~"),
                            values |-> JList(<<JStr("a\"b\\")>>)])])

FilterInputs ==
    { JList(<<>>), JList(<<StatusFilter>>), StatusFilter,
      JList(<<StatusFilter, SubjectFilter>>) }

\* lines 368-447
get_project_work_packages ==
    /\ pc = "idle"
    /\ \E a \in Inputs([project_id |-> Ids],
                       [offset |-> OptIds, page_size |-> OptIds,
                        filters |-> FilterInputs,
                        sort_by |-> { JList(<<>>),
                                      JList(<<JObj([updatedAt |-> JStr("desc")])>>) },
                        group_by |-> Strs, show_sums |-> Bools,
                        select |-> { JList(<<>>),
                                     JList(<<JStr("id"), JStr("subject")>>) }]) :
         LET q1 == PutIf(a.offset # JNull, EmptyDict, "offset", a.offset)
             q2 == PutIf(a.page_size # JNull, q1, "pageSize", a.page_size)
             q3 == PutIf(a.filters # JNull, q2, "filters",
                         JStr(JsonDumps(a.filters)))
             q4 == PutIf(a.sort_by # JNull, q3, "sortBy",
                         JStr(JsonDumps(a.sort_by)))
             q5 == PutIf(a.group_by # JNull, q4, "groupBy", a.group_by)
             q6 == PutIf(a.show_sums # JNull, q5, "showSums",
                         JStr(IF Truthy(a.show_sums) THEN "true" ELSE "false"))
             params == PutIf(a.select # JNull, q6, "select",
                             JStr(CommaJoin(a.select.a)))
         IN  CallSite(Operation("get_project_work_packages", TRUE, "dumps",
                                "Error retrieving work packages for project "
                                \o Str(a.project_id.n), ""),
                      a,
                      [url |-> Url("/api/v3/projects/" \o Str(a.project_id.n)
                                   \o "/work_packages"),
                       method |-> GET, headers |-> JsonHeaders,
                       params |-> JObj(params)])

\* lines 449-484
get_project_available_assignees ==
    /\ pc = "idle"
    /\ \E a \in Inputs([project_id |-> Ids], NoParams) :
         CallSite(Operation("get_project_available_assignees", TRUE, "dumps",
                            "Error retrieving available assignees for project "
                            \o Str(a.project_id.n), ""),
                  a,
                  [url |-> Url("/api/v3/projects/" \o Str(a.project_id.n)
                               \o "/available_assignees"),
                   method |-> GET, headers |-> JsonHeaders])

----------------------------------------------------------------------------
(* Work packages *)

\* lines 486-534
view_work_package ==
    /\ pc = "idle"
    /\ \E a \in Inputs([work_package_id |-> Ids],
                       [timestamps |-> { JList(<<>>),
                                         JList(<<JStr("2025-01-01")>>) }]) :
         LET params == PutIf(a.timestamps # JNull, EmptyDict, "timestamps",
                             JStr(CommaJoin(a.timestamps.a)))
         IN  CallSite(Operation("view_work_package", TRUE, "dumps",
                                "Error retrieving work package "
                                \o Str(a.work_package_id.n), ""),
                      a,
                      [url |-> Url("/api/v3/work_packages/"
                                   \o Str(a.work_package_id.n)),
                       method |-> GET, headers |-> JsonHeaders,
                       params |-> JObj(params)])

\* {"href": f"{path}{id}"}
Href(path, id) == JObj([href |-> JStr(path \o Str(id.n))])

\* params = {"notify": "true" if notify else "false"}
NotifyParams(notify) ==
    JObj([notify |-> JStr(IF Truthy(notify) THEN "true" ELSE "false")])

\* lines 536-635
create_work_package ==
    /\ pc = "idle"
    /\ \E a \in Inputs([project_id |-> Ids, subject |-> {JStr("S")},
                        notify |-> Bools],
                       [description |-> Strs, type_id |-> OptIds,
                        priority_id |-> OptIds, status_id |-> OptIds,
                        assignee_id |-> OptIds, start_date |-> Strs,
                        due_date |-> Strs, estimated_time |-> Strs]) :
         LET p1 == PutIf(Truthy(a.description), [subject |-> a.subject],
                         "description", RawText(a.description))
             p2 == PutIf(Truthy(a.start_date), p1, "startDate", a.start_date)
             p3 == PutIf(Truthy(a.due_date), p2, "dueDate", a.due_date)
             p4 == PutIf(Truthy(a.estimated_time), p3,
                         "estimatedTime", a.estimated_time)
             l1 == PutIf(Truthy(a.type_id), EmptyDict, "type",
                         Href("/api/v3/types/", a.type_id))
             l2 == PutIf(Truthy(a.priority_id), l1, "priority",
                         Href("/api/v3/priorities/", a.priority_id))
             l3 == PutIf(Truthy(a.status_id), l2, "status",
                         Href("/api/v3/statuses/", a.status_id))
             links == PutIf(Truthy(a.assignee_id), l3, "assignee",
                            Href("/api/v3/users/", a.assignee_id))
             payload == PutIf(Truthy(JObj(links)), p4, "_links", JObj(links))
         IN  CallSite(Operation("create_work_package", TRUE, "dumps",
                                "Error creating work package in project "
                                \o Str(a.project_id.n), ""),
                      a,
                      [url |-> Url("/api/v3/projects/" \o Str(a.project_id.n)
                                   \o "/work_packages"),
                       method |-> POST, headers |-> JsonHeaders,
                       params |-> NotifyParams(a.notify),
                       json |-> JObj(payload)])

\* [default_status_filter, *filters]: a list gives its items, a dict its keys
Unpack(v) ==
    IF v.k = "list" THEN v.a
    ELSE [i \in 1..Len(KeysOf(v.o)) |-> JStr(KeysOf(v.o)[i])]

\* lines 637-707
list_work_packages ==
    /\ pc = "idle"
    /\ \E a \in Inputs(NoParams, [filters |-> FilterInputs]) :
         LET default_status_filter ==
                 JObj([status_id |-> JObj([operator |-> JStr("o"),
                                           values |-> JNull])])
             effective_filters ==
                 IF a.filters = JNull THEN <<default_status_filter>>
                 ELSE IF a.filters = JList(<<>>) THEN <<>>
                 ELSE <<default_status_filter>> \o Unpack(a.filters)
             effective_sort_by == JList(<<JList(<<JStr("id"), JStr("asc")>>)>>)
             params ==
                 ("offset" :> JInt(1)) @@ ("pageSize" :> JInt(20))
                 @@ ("filters" :> JStr(JsonDumps(JList(effective_filters))))
                 @@ ("sortBy" :> JStr(JsonDumps(effective_sort_by)))
                 @@ ("showSums" :> JStr("false"))
                 @@ ("timestamps" :> JStr("PT0S"))
         IN  CallSite(Operation("list_work_packages", TRUE, "dumps",
                                "Error listing work packages", ""),
                      a,
                      [url |-> Url("/api/v3/work_packages"), method |-> GET,
                       headers |-> JsonHeaders, params |-> JObj(params)])

\* the operations that only GET f"/api/v3/work_packages/{id}{suffix}"
WorkPackageGet(name, suffix, err) ==
    \E a \in Inputs([work_package_id |-> Ids], NoParams) :
         CallSite(Operation(name, TRUE, "dumps",
                            err \o Str(a.work_package_id.n), ""),
                  a,
                  [url |-> Url("/api/v3/work_packages/"
                               \o Str(a.work_package_id.n) \o suffix),
                   method |-> GET, headers |-> JsonHeaders])

\* lines 709-745
list_work_package_activities ==
    /\ pc = "idle"
    /\ WorkPackageGet("list_work_package_activities", "/activities",
                   "Error retrieving activities for work package ")

\* lines 747-857
update_work_package ==
    /\ pc = "idle"
    /\ \E a \in Inputs([work_package_id |-> Ids,
                        lock_version |-> OptIds \cup {JNull},
                        notify |-> Bools],
                       [subject |-> Strs, description |-> Strs,
                        percentage_done |-> OptIds, type_id |-> OptIds,
                        priority_id |-> OptIds, status_id |-> OptIds,
                        assignee_id |-> OptIds, start_date |-> Strs,
                        due_date |-> Strs, estimated_time |-> Strs]) :
         LET p1 == PutIf(a.subject # JNull, [lockVersion |-> a.lock_version],
                         "subject", a.subject)
             p2 == PutIf(a.percentage_done # JNull, p1,
                         "percentageDone", a.percentage_done)
             p3 == PutIf(a.start_date # JNull, p2, "startDate", a.start_date)
             p4 == PutIf(a.due_date # JNull, p3, "dueDate", a.due_date)
             p5 == PutIf(a.estimated_time # JNull, p4,
                         "estimatedTime", a.estimated_time)
             p6 == PutIf(a.description # JNull, p5, "description",
                         RawText(a.description))
             l1 == PutIf(a.type_id # JNull, EmptyDict, "type",
                         Href("/api/v3/types/", a.type_id))
             l2 == PutIf(a.priority_id # JNull, l1, "priority",
                         Href("/api/v3/priorities/", a.priority_id))
             l3 == PutIf(a.status_id # JNull, l2, "status",
                         Href("/api/v3/statuses/", a.status_id))
             links == PutIf(a.assignee_id # JNull, l3, "assignee",
                            Href("/api/v3/users/", a.assignee_id))
             payload == PutIf(Truthy(JObj(links)), p6, "_links", JObj(links))
         IN  CallSite(Operation("update_work_package", TRUE, "dumps",
                                "Error updating work package "
                                \o Str(a.work_package_id.n), ""),
                      a,
                      [url |-> Url("/api/v3/work_packages/"
                                   \o Str(a.work_package_id.n)),
                       method |-> PATCH, headers |-> JsonHeaders,
                       params |-> NotifyParams(a.notify),
                       json |-> JObj(payload)])

\* lines 859-915
comment_work_package ==
    /\ pc = "idle"
    /\ \E a \in Inputs([work_package_id |-> Ids, comment_text |-> Strs,
                        notify |-> Bools], NoParams) :
         CallSite(Operation("comment_work_package", TRUE, "dumps",
                            "Error commenting on work package "
                            \o Str(a.work_package_id.n), ""),
                  a,
                  [url |-> Url("/api/v3/work_packages/"
                               \o Str(a.work_package_id.n) \o "/activities"),
                   method |-> POST, headers |-> JsonHeaders,
                   params |-> NotifyParams(a.notify),
                   json |-> JObj([_type |-> JStr("Comment"),
                                  comment |-> RawText(a.comment_text)])])

\* lines 917-953
get_work_package_available_assignees ==
    /\ pc = "idle"
    /\ WorkPackageGet("get_work_package_available_assignees",
                   "/available_assignees",
                   "Error retrieving available assignees for work package ")

\* lines 955-990
get_work_package_available_watchers ==
    /\ pc = "idle"
    /\ WorkPackageGet("get_work_package_available_watchers",
                   "/available_watchers",
                   "Error retrieving available watchers for work package ")

\* lines 992-1027
list_work_package_watchers ==
    /\ pc = "idle"
    /\ WorkPackageGet("list_work_package_watchers", "/watchers",
                   "Error retrieving watchers for work package ")

\* lines 1029-1077
add_work_package_watcher ==
    /\ pc = "idle"
    /\ \E a \in Inputs([work_package_id |-> Ids, user_id |-> Ids], NoParams) :
         CallSite(Operation("add_work_package_watcher", TRUE, "dumps",
                            "Error adding watcher to work package "
                            \o Str(a.work_package_id.n), ""),
                  a,
                  [url |-> Url("/api/v3/work_packages/"
                               \o Str(a.work_package_id.n) \o "/watchers"),
                   method |-> POST, headers |-> JsonHeaders,
                   json |-> JObj([_links |->
                       JObj([user |-> Href("/api/v3/users/", a.user_id)])])])

\* lines 1079-1118: whatever make_request returned is put into a sentence
remove_work_package_watcher ==
    /\ pc = "idle"
    /\ \E a \in Inputs([work_package_id |-> Ids, user_id |-> Ids], NoParams) :
         CallSite(Operation("remove_work_package_watcher", TRUE, "text",
                            "Error removing watcher from work package "
                            \o Str(a.work_package_id.n),
                            "Successfully removed user " \o Str(a.user_id.n)
                            \o " as watcher from work package "
                            \o Str(a.work_package_id.n) \o ". Response: "),
                  a,
                  [url |-> Url("/api/v3/work_packages/"
                               \o Str(a.work_package_id.n) \o "/watchers/"
                               \o Str(a.user_id.n)),
                   method |-> DELETE, headers |-> JsonHeaders])

----------------------------------------------------------------------------
(* Operations that assign the module-level names inside their body.        *)
(* "api_key = f'Basic {api_key}'" (run_api) and                            *)
(* "api_key = os.getenv('OPENPROJECT_API_KEY', api_key)" (the others) make *)
(* api_key a local of the function, read before its first assignment:      *)
(* Python raises UnboundLocalError there, before the try block.            *)

LocalRebound(o, req, opt) ==
    \E a \in Inputs(req, opt) : Ends(o, a, Raised("UnboundLocalError"))

\* lines 70-98
run_api ==
    /\ pc = "idle"
    /\ LocalRebound(Operation("run_api", FALSE, "dumps", "", ""),
                 [query |-> {JStr("/projects")},
                  method |-> {JStr("GET"), JStr("POST")}], NoParams)

\* lines 1120-1157
view_activity ==
    /\ pc = "idle"
    /\ LocalRebound(Operation("view_activity", TRUE, "dumps",
                           "Error retrieving activity", ""),
                 [activity_id |-> Ids], NoParams)

\* lines 1159-1205
update_activity ==
    /\ pc = "idle"
    /\ LocalRebound(Operation("update_activity", TRUE, "dumps",
                           "Error updating activity", ""),
                 [activity_id |-> Ids, new_comment_text |-> Strs], NoParams)

\* lines 1207-1243
list_work_package_attachments ==
    /\ pc = "idle"
    /\ LocalRebound(Operation("list_work_package_attachments", TRUE, "dumps",
                           "Error retrieving attachments for work package", ""),
                 [work_package_id |-> Ids], NoParams)

\* the paths an upload is asked for: the first exists, the second does not
FilePaths == { JStr("/tmp/report.pdf"), JStr("/tmp/missing.bin") }

\* lines 1245-1321
create_work_package_attachment ==
    /\ pc = "idle"
    /\ LocalRebound(Operation("create_work_package_attachment", TRUE, "dumps",
                           "Error creating attachment for work package", ""),
                 [work_package_id |-> Ids, file_path |-> FilePaths],
                 [file_name |-> Strs, description |-> Strs])

\* lines 1323-1399
create_attachment ==
    /\ pc = "idle"
    /\ LocalRebound(Operation("create_attachment", TRUE, "dumps",
                           "Error uploading attachment", ""),
                 [file_path |-> FilePaths],
                 [file_name |-> Strs, description |-> Strs])

\* lines 1401-1438
view_attachment ==
    /\ pc = "idle"
    /\ LocalRebound(Operation("view_attachment", TRUE, "dumps",
                           "Error retrieving attachment", ""),
                 [attachment_id |-> Ids], NoParams)

\* lines 1440-1478
delete_attachment ==
    /\ pc = "idle"
    /\ LocalRebound(Operation("delete_attachment", TRUE, "text",
                           "Error deleting attachment",
                           "Successfully deleted attachment"),
                 [attachment_id |-> Ids], NoParams)

\* lines 1484-1520
get_custom_action ==
    /\ pc = "idle"
    /\ LocalRebound(Operation("get_custom_action", TRUE, "dumps",
                           "Error retrieving custom action", ""),
                 [custom_action_id |-> Ids], NoParams)

\* lines 1522-1577
execute_custom_action ==
    /\ pc = "idle"
    /\ LocalRebound(Operation("execute_custom_action", TRUE, "dumps",
                           "Error executing custom action", ""),
                 [custom_action_id |-> Ids, work_package_id |-> Ids,
                  lock_version |-> OptIds \cup {JNull}], NoParams)

\* lines 1579-1638
get_work_package_file_links ==
    /\ pc = "idle"
    /\ LocalRebound(Operation("get_work_package_file_links", TRUE, "dumps",
                           "Error retrieving file links for work package", ""),
                 [work_package_id |-> Ids], [storage_filter |-> Strs])

\* lines 1640-1676
get_file_link ==
    /\ pc = "idle"
    /\ LocalRebound(Operation("get_file_link", TRUE, "dumps",
                           "Error retrieving file link", ""),
                 [file_link_id |-> Ids], NoParams)

\* lines 1678-1734
list_groups ==
    /\ pc = "idle"
    /\ LocalRebound(Operation("list_groups", TRUE, "dumps",
                           "Error retrieving groups", ""),
                 NoParams,
                 [sort_by |-> Strs, select_fields |-> Strs, filters |-> Strs])

\* lines 1736-1799
list_users ==
    /\ pc = "idle"
    /\ LocalRebound(Operation("list_users", TRUE, "dumps",
                           "Error retrieving user list", ""),
                 [offset |-> {JInt(1)}, page_size |-> {JInt(20)}],
                 [filters |-> Strs, sort_by |-> Strs, select_fields |-> Strs])

\* lines 1801-1863
get_notification_collection ==
    /\ pc = "idle"
    /\ LocalRebound(Operation("get_notification_collection", TRUE, "dumps",
                           "Error retrieving notifications", ""),
                 [offset |-> {JInt(1)}, page_size |-> {JInt(20)}],
                 [sort_by |-> Strs, group_by |-> Strs, filters |-> Strs])

\* lines 1865-1902
get_notification_detail ==
    /\ pc = "idle"
    /\ LocalRebound(Operation("get_notification_detail", TRUE, "dumps",
                           "Error retrieving detail", ""),
                 [notification_id |-> Ids, detail_id |-> Ids], NoParams)

----------------------------------------------------------------------------

Next ==
    \/ make_request
    \/ create_project
    \/ view_project
    \/ list_projects
    \/ list_statuses
    \/ update_project
    \/ view_project_status
    \/ get_project_work_packages
    \/ get_project_available_assignees
    \/ view_work_package
    \/ create_work_package
    \/ list_work_packages
    \/ list_work_package_activities
    \/ update_work_package
    \/ comment_work_package
    \/ get_work_package_available_assignees
    \/ get_work_package_available_watchers
    \/ list_work_package_watchers
    \/ add_work_package_watcher
    \/ remove_work_package_watcher
    \/ run_api
    \/ view_activity
    \/ update_activity
    \/ list_work_package_attachments
    \/ create_work_package_attachment
    \/ create_attachment
    \/ view_attachment
    \/ delete_attachment
    \/ get_custom_action
    \/ execute_custom_action
    \/ get_work_package_file_links
    \/ get_file_link
    \/ list_groups
    \/ list_users
    \/ get_notification_collection
    \/ get_notification_detail
    \/ BindCall
    \/ make_request_send
    \/ UpstreamReplies
    \/ make_request_receive
    \/ OperationReturns
    \/ NextInvocation

Spec == Init /\ [][Next]_vars

----------------------------------------------------------------------------
(* The catalog lookup on its own: any table of the catalog, any query *)

\* src/query_db.py, search_endpoint(query)
query_db_search_endpoint ==
    /\ lookup.pc = "idle"
    /\ \E query \in Queries :
         lookup' = Lookup("query_db.search_endpoint", query,
                          QueryDbSearchEndpoint(catalog, query))
    /\ UNCHANGED <<gateway, catalog, chat, elapsed, server, toolCall>>

\* src/mcp_agent.py, search_endpoint(query)
search_endpoint ==
    /\ lookup.pc = "idle"
    /\ \E query \in Queries :
         lookup' = Lookup("search_endpoint", query,
                          SearchEndpoint(catalog, query))
    /\ UNCHANGED <<gateway, catalog, chat, elapsed, server, toolCall>>

\* src/mcp_agent.py, the tool query_api(query)
query_api ==
    /\ lookup.pc = "idle"
    /\ \E query \in Queries :
         lookup' = Lookup("query_api", query, QueryApi(catalog, query))
    /\ UNCHANGED <<gateway, catalog, chat, elapsed, server, toolCall>>

NextLookup ==
    /\ lookup.pc = "done"
    /\ lookup' = NoLookup
    /\ UNCHANGED <<gateway, catalog, chat, elapsed, server, toolCall>>

CatalogInit ==
    /\ pc = "idle"
    /\ op = NoOperation
    /\ args = EmptyDict
    /\ call = <<>>
    /\ mr = <<>>
    /\ wire = <<>>
    /\ upstream = <<>>
    /\ response = <<>>
    /\ result = <<>>
    /\ fileReads = 0
    /\ catalog \in Tables
    /\ lookup = NoLookup
    /\ chat = NoChat
    /\ elapsed = 0
    /\ server = NoServer
    /\ toolCall = NoTool

CatalogNext ==
    \/ query_db_search_endpoint
    \/ search_endpoint
    \/ query_api
    \/ NextLookup

CatalogSpec == CatalogInit /\ [][CatalogNext]_vars

----------------------------------------------------------------------------
(* make_request with the time its call waits.  request_args carries        *)
(* "timeout": 30.0 (line 42): the client gives the upstream that long to   *)
(* answer and raises a timeout exception inside the try block otherwise.   *)

\* a second passes while the call waits
AwaitTick ==
    /\ pc = "await"
    /\ elapsed < Timeout
    /\ elapsed' = elapsed + 1
    /\ UNCHANGED <<gateway, catalog, lookup, chat, server, toolCall>>

\* a part of the answer arrives before the time is up (the status line and
\* headers, a piece of the body): the client goes on reading and the 30 s of
\* line 42, which bound each wait and not the call, start again
PartArrives ==
    /\ pc = "await"
    /\ elapsed < Timeout
    /\ elapsed' = 0
    /\ UNCHANGED <<gateway, catalog, lookup, chat, server, toolCall>>

\* the last part of the answer arrives, or the connection fails, before the
\* time is up
UpstreamResponds ==
    /\ pc = "await"
    /\ elapsed < Timeout
    /\ \E o \in UpstreamOutcomes \ {TransportFailure("ReadTimeout", "")} :
         upstream' = o
    /\ pc' = "respond"
    /\ elapsed' = 0
    /\ UNCHANGED <<op, args, call, mr, wire, response, result, fileReads,
                   catalog, lookup, chat, server, toolCall>>

\* nothing arrived for Timeout seconds: the client raises ReadTimeout
TimesOut ==
    /\ pc = "await"
    /\ elapsed = Timeout
    /\ upstream' = TransportFailure("ReadTimeout", "")
    /\ pc' = "respond"
    /\ elapsed' = 0
    /\ UNCHANGED <<op, args, call, mr, wire, response, result, fileReads,
                   catalog, lookup, chat, server, toolCall>>

\* what the event loop and the clock do without anyone's help
Runs ==
    \/ BindCall
    \/ make_request_send
    \/ AwaitTick
    \/ TimesOut
    \/ OperationReturns

\* the step of make_request_receive as the position it moves: the action is
\* enabled exactly when pc = "respond", Normalise being defined for every
\* outcome, and no other step leads from "respond" to "return"
Received == pc = "respond" /\ pc' = "return"

RequestNext ==
    \/ make_request
    \/ PartArrives
    \/ UpstreamResponds
    \/ Runs
    \/ make_request_receive
    \/ NextInvocation

\* the event loop resumes the coroutine and the clock runs on; nothing
\* makes the upstream answer
RequestSpec ==
    Init /\ [][RequestNext]_vars /\ WF_vars(Runs) /\ WF_pc(Received)

----------------------------------------------------------------------------
(* The steps of the invocations served at once *)

\* the Operation record of an invocation (see the operations above)
TaskOperation(name, a) ==
    CASE name = "view_project" ->
             Operation(name, TRUE, "dumps",
                       "Error retrieving project " \o Str(a.project_id.n), "")
      [] name = "remove_work_package_watcher" ->
             Operation(name, TRUE, "text",
                       "Error removing watcher from work package "
                       \o Str(a.work_package_id.n),
                       "Successfully removed user " \o Str(a.user_id.n)
                       \o " as watcher from work package "
                       \o Str(a.work_package_id.n) \o ". Response: ")
      [] name = "run_api" -> Operation(name, FALSE, "dumps", "", "")

SetTask(t, task) == [server EXCEPT !.tasks[t] = task]

\* an invocation starts: it reads host and api_key from the module and
\* builds its own URL and headers dict; run_api ends at line 90
TaskInvoke ==
    \E t \in Tasks, name \in DOMAIN TaskInputs :
      \E a \in TaskInputs[name] :
        /\ server.tasks[t].pc = "idle"
        /\ server' =
             IF name = "run_api"
             THEN [module |-> Rebind(server.module),
                   tasks |-> [server.tasks EXCEPT ![t] =
                       [NoTask EXCEPT !.pc = "done", !.name = name,
                                      !.args = a,
                                      !.result = <<Raised("UnboundLocalError")>>]]]
             ELSE SetTask(t,
                     [NoTask EXCEPT
                        !.pc = "request", !.name = name, !.args = a,
                        !.url = "https://" \o server.module.host
                                \o TaskPath(name, a),
                        !.headers =
                            JObj(("Authorization" :>
                                    JStr("Basic " \o server.module.api_key))
                                 @@ ("Content-Type" :>
                                    JStr("application/json")))])
        /\ UNCHANGED <<gateway, catalog, lookup, chat, elapsed, toolCall>>

\* lines 37-38 for invocation t: the User-Agent is stored in its headers
\* dict; the coroutine is suspended entering the "async with" of line 39
TaskBind ==
    \E t \in Tasks :
      LET task == server.tasks[t]
      IN  /\ task.pc = "request"
          /\ server' = SetTask(t,
                 [task EXCEPT
                    !.pc = "enter",
                    !.headers = JObj(Put(task.headers.o, "User-Agent",
                                         JStr(server.module.USER_AGENT)))])
          /\ UNCHANGED <<gateway, catalog, lookup, chat, elapsed, toolCall>>

\* lines 39-53 for invocation t: the client is open and the request goes
\* out; the coroutine is suspended at the await of line 53
TaskSend ==
    \E t \in Tasks :
      LET task == server.tasks[t]
          m == [url |-> task.url, method |-> TaskMethod(task.name),
                headers |-> task.headers, data |-> JNull, params |-> JNull]
      IN  /\ task.pc = "enter"
          /\ server' = SetTask(t,
                 [task EXCEPT
                    !.pc = "await",
                    !.wire = Append(task.wire,
                        [verb |-> Join(StrLower(m.method)), url |-> m.url,
                         request_args |-> RequestArgs(m)])])
          /\ UNCHANGED <<gateway, catalog, lookup, chat, elapsed, toolCall>>

\* the outcomes of a network call told apart in this part of the model
TaskAnswers ==
    { HttpResponse(200, "{\"id\": 1}"), HttpResponse(404, "Not Found"),
      TransportFailure("ReadTimeout", "") }

\* the upstream answers invocation t, or its transport gives up
TaskAnswer ==
    \E t \in Tasks, o \in TaskAnswers :
      /\ server.tasks[t].pc = "await"
      /\ server' = SetTask(t, [server.tasks[t] EXCEPT !.pc = "respond",
                                                      !.upstream = o])
      /\ UNCHANGED <<gateway, catalog, lookup, chat, elapsed, toolCall>>

\* lines 54-68 for invocation t: make_request has its return value; the
\* coroutine is suspended leaving the "async with" of line 39
TaskReceive ==
    \E t \in Tasks :
      LET task == server.tasks[t]
      IN  /\ task.pc = "respond"
          /\ server' = SetTask(t,
                 [task EXCEPT !.pc = "return",
                              !.response = << Normalise(task.upstream) >>])
          /\ UNCHANGED <<gateway, catalog, lookup, chat, elapsed, toolCall>>

\* the operation's statements after its "await make_request(...)", for
\* invocation t
TaskReturn ==
    \E t \in Tasks :
      LET task == server.tasks[t]
      IN  /\ task.pc = "return"
          /\ server' = SetTask(t,
                 [task EXCEPT
                    !.pc = "done",
                    !.result = << ReturnValue(TaskOperation(task.name,
                                                            task.args),
                                              task.response[1]) >>])
          /\ UNCHANGED <<gateway, catalog, lookup, chat, elapsed, toolCall>>

\* the result was handed to the client; nothing of the invocation is kept
TaskLeave ==
    \E t \in Tasks :
      /\ server.tasks[t].pc = "done"
      /\ server' = SetTask(t, NoTask)
      /\ UNCHANGED <<gateway, catalog, lookup, chat, elapsed, toolCall>>

ConcurrentNext ==
    \/ TaskInvoke
    \/ TaskBind
    \/ TaskSend
    \/ TaskAnswer
    \/ TaskReceive
    \/ TaskReturn
    \/ TaskLeave

ConcurrentSpec == Init /\ [][ConcurrentNext]_vars

----------------------------------------------------------------------------
(* The tool functions' steps *)

\* url, payload and the one requests.post(url, headers=pm_headers,
\* json=payload) of a tool function
Post(name, a) ==
    /\ \E now \in Clock :
         toolCall' =
             [toolCall EXCEPT !.pc = "posted", !.name = name, !.args = a,
                !.posts = Append(@, [url |-> PM_BASE_URL \o "/" \o name,
                                     headers |-> pm_headers,
                                     json |-> ToolPayload(name, a, now)])]
    /\ UNCHANGED <<gateway, catalog, lookup, chat, elapsed, server>>

\* src/pm_launch.py lines 20-32
pm_list_projects ==
    /\ toolCall.pc = "idle"
    /\ \E a \in Inputs([filters |-> Dicts("active")], NoParams) :
          Post("list_projects", a)

\* lines 38-52
pm_get_project_work_packages ==
    /\ toolCall.pc = "idle"
    /\ \E a \in Inputs([project_id |-> Ids, offset |-> {JInt(1)},
                       page_size |-> {JInt(20)}],
                      [filters |-> { JList(<<>>), JObj("status" :> JStr("o")) },
                       sort_by |-> { JList(<<JObj("id" :> JStr("asc"))>>) }]) :
          Post("get_project_work_packages", a)

\* lines 57-72
pm_create_project ==
    /\ toolCall.pc = "idle"
    /\ \E a \in Inputs([name |-> {JStr("P")}, public |-> Bools],
                      [description |-> Strs, identifier |-> Strs,
                       status_explanation |-> Strs]) :
          Post("create_project", a)

\* lines 77-95
pm_create_work_package ==
    /\ toolCall.pc = "idle"
    /\ \E a \in Inputs([project_id |-> Ids, subject |-> {JStr("S")},
                       notify |-> {JBool(TRUE)}],
                      [description |-> Strs, status_id |-> OptIds,
                       type_id |-> OptIds, priority_id |-> OptIds]) :
          Post("create_work_package", a)

\* lines 100-116
pm_update_work_package ==
    /\ toolCall.pc = "idle"
    /\ \E a \in Inputs([work_package_id |-> Ids, lock_version |-> OptIds,
                       notify |-> {JBool(TRUE)}],
                      [status_id |-> OptIds, description |-> Strs,
                       percentage_done |-> OptIds]) :
          Post("update_work_package", a)

\* lines 121-136
pm_view_work_package ==
    /\ toolCall.pc = "idle"
    /\ \E a \in Inputs([work_package_id |-> Ids \cup {JNull}], NoParams) :
          Post("view_work_package", a)

\* lines 142-155
pm_comment_work_package ==
    /\ toolCall.pc = "idle"
    /\ \E a \in Inputs([work_package_id |-> Ids, comment_text |-> Strs,
                       notify |-> Bools], NoParams) :
          Post("comment_work_package", a)

\* lines 161-173
pm_list_statuses ==
    /\ toolCall.pc = "idle"
    /\ Post("list_statuses", EmptyDict)

\* the Gateway's answer to the POST arrives, or the connection fails
requests_post ==
    /\ toolCall.pc = "posted"
    /\ \E answer \in GatewayAnswers :
         toolCall' = [toolCall EXCEPT !.pc = "answered", !.answer = <<answer>>]
    /\ UNCHANGED <<gateway, catalog, lookup, chat, elapsed, server>>

\* the rest of the try statement: raise_for_status() where it is called,
\* response.json(), the except clause
tool_returns ==
    /\ toolCall.pc = "answered"
    /\ toolCall' = [toolCall EXCEPT !.pc = "done",
                  !.result = <<ToolReturn(toolCall.name, toolCall.args,
                                          toolCall.answer[1])>>]
    /\ UNCHANGED <<gateway, catalog, lookup, chat, elapsed, server>>

\* the value went back to the agent; the next tool call starts afresh
NextToolCall ==
    /\ toolCall.pc = "done"
    /\ toolCall' = NoTool
    /\ UNCHANGED <<gateway, catalog, lookup, chat, elapsed, server>>

ToolNext ==
    \/ pm_list_projects
    \/ pm_get_project_work_packages
    \/ pm_create_project
    \/ pm_create_work_package
    \/ pm_update_work_package
    \/ pm_view_work_package
    \/ pm_comment_work_package
    \/ pm_list_statuses
    \/ requests_post
    \/ tool_returns
    \/ NextToolCall

ToolSpec == Init /\ [][ToolNext]_vars

----------------------------------------------------------------------------
(* The conversation's steps *)

\* src/pm_launch.py lines 395-398: the user proxy hands the task to the
\* manager
initiate_chat ==
    /\ chat.pc = "idle"
    /\ \E user_question \in Questions :
         chat' = [chat EXCEPT !.pc = "append",
                              !.message = Message(user_proxy,
                                                  JStr(user_question), FALSE)]
    /\ UNCHANGED <<gateway, catalog, lookup, elapsed, server, toolCall>>

\* the manager takes the message into the group chat; the exchange ends on
\* the manager's own termination word and at the round limit
run_chat_append ==
    /\ chat.pc = "append"
    /\ chat' = [chat EXCEPT
                  !.round = chat.round + 1,
                  !.pc = IF \/ Get(chat.message, "content") = JStr("TERMINATE")
                            \/ chat.round + 1 >= max_round
                         THEN "terminated" ELSE "select"]
    /\ UNCHANGED <<gateway, catalog, lookup, elapsed, server, toolCall>>

\* the manager picks the next speaker: the executor of the tools when the
\* last message asks for one, any participant otherwise
select_speaker ==
    /\ chat.pc = "select"
    /\ \E speaker \in IF chat.message.tool_calls
                       THEN {user_proxy} ELSE Participants :
         chat' = [chat EXCEPT !.pc = "reply", !.busy = {speaker}]
    /\ UNCHANGED <<gateway, catalog, lookup, elapsed, server, toolCall>>

\* the speaker finds the last message to be a termination message and
\* gives no reply: the exchange is over
reply_none ==
    /\ chat.pc = "reply"
    /\ is_done(chat.message)
    /\ chat' = [chat EXCEPT !.pc = "terminated", !.busy = {}]
    /\ UNCHANGED <<gateway, catalog, lookup, elapsed, server, toolCall>>

\* the user proxy runs the tool function the last message asks for, one of
\* those registered for execution at src/pm_launch.py lines 263-363, and
\* what the function returns is its reply.  The function's requests.post
\* (lines 32, 52, 72, 95, 116, 136, 155, 173) has no timeout: with a Gateway
\* that accepts the connection and stays silent the step never happens
reply_tool ==
    /\ chat.pc = "reply"
    /\ ~is_done(chat.message)
    /\ chat.busy = {user_proxy}
    /\ chat.message.tool_calls
    /\ \E returned \in ToolResults :
         chat' = [chat EXCEPT !.pc = "append", !.busy = {},
                              !.executed = chat.executed + 1,
                              !.message = Message(user_proxy, returned, FALSE)]
    /\ UNCHANGED <<gateway, catalog, lookup, elapsed, server, toolCall>>

\* the user proxy has nothing to run and sends its empty default reply
reply_default ==
    /\ chat.pc = "reply"
    /\ ~is_done(chat.message)
    /\ chat.busy = {user_proxy}
    /\ ~chat.message.tool_calls
    /\ chat' = [chat EXCEPT !.pc = "append", !.busy = {},
                            !.message = Message(user_proxy, JStr(""), FALSE)]
    /\ UNCHANGED <<gateway, catalog, lookup, elapsed, server, toolCall>>

\* Astra-Mini or GraniteMan answers: text, a tool request, or both
reply_model ==
    /\ chat.pc = "reply"
    /\ ~is_done(chat.message)
    /\ \E speaker \in chat.busy \cap {assistant, assistantGM} :
       \E tool \in BOOLEAN :
         \/ \E content \in Answers :
              chat' = [chat EXCEPT !.pc = "append", !.busy = {},
                                   !.message = Message(speaker, content, tool)]
         \/ chat' = [chat EXCEPT !.pc = "append", !.busy = {},
                                 !.message = Bare(speaker, tool)]
    /\ UNCHANGED <<gateway, catalog, lookup, elapsed, server, toolCall>>

\* the steps of the loop that end without the Gateway's help
Turns ==
    \/ run_chat_append
    \/ select_speaker
    \/ reply_none
    \/ reply_default
    \/ reply_model

run_chat == Turns \/ reply_tool

ChatInit == CatalogInit /\ catalog = Installed

ChatNext == initiate_chat \/ run_chat

\* the manager's loop is one thread that runs until it breaks; a turn that
\* runs a tool ends when the Gateway has answered, which nothing ensures
ChatSpec == ChatInit /\ [][ChatNext]_vars /\ WF_vars(Turns)

----------------------------------------------------------------------------
(* Properties *)

\* the invocation being served is one of the Gateway's operations
GatewayOperation == op.name \notin {"", "make_request"}

\* the dicts the operation handed to make_request as json= and params=
Body == IF call # <<>> /\ "json" \in DOMAIN call THEN call.json.o ELSE EmptyDict

Query ==
    IF call # <<>> /\ "params" \in DOMAIN call THEN call.params.o ELSE EmptyDict

Links == IF "_links" \in DOMAIN Body THEN Body["_links"].o ELSE EmptyDict

ShapedKeys == DOMAIN Body \cup DOMAIN Query \cup DOMAIN Links

\* the key under which an optional parameter travels
OutKey ==
    [name |-> "name", identifier |-> "identifier", public |-> "public",
     active |-> "active", description |-> "description",
     status_explanation |-> "statusExplanation", offset |-> "offset",
     page_size |-> "pageSize", filters |-> "filters", sort_by |-> "sortBy",
     group_by |-> "groupBy", show_sums |-> "showSums", select |-> "select",
     timestamps |-> "timestamps", subject |-> "subject",
     percentage_done |-> "percentageDone", start_date |-> "startDate",
     due_date |-> "dueDate", estimated_time |-> "estimatedTime",
     type_id |-> "type", priority_id |-> "priority", status_id |-> "status",
     assignee_id |-> "assignee"]

OptionalArgs == DOMAIN args \cap DOMAIN OutKey

IsErrorRecord(v) == v.k = "obj" /\ "error" \in DOMAIN v.o

\* all required arguments are present, a referenced file exists, and an
\* update_project names at least one field
WellFormed ==
    /\ "lock_version" \in DOMAIN args => args.lock_version # JNull
    /\ "file_path" \in DOMAIN args => args.file_path = JStr("/tmp/report.pdf")
    /\ op.name = "update_project" =>
         \E p \in {"name", "description", "identifier", "public", "active",
                   "status_explanation"} : args[p] # JNull

BodyOperations ==
    {"create_project", "update_project", "create_work_package",
     "update_work_package", "comment_work_package",
     "add_work_package_watcher", "update_activity", "execute_custom_action"}

\* C1: every Gateway operation invoked with well-formed input issues exactly
\* one HTTP call and returns that call's result; for the body-carrying
\* operations the shaped payload is the JSON body of that call.  (Stated of
\* the invocations that return; those that raise are C3's.)
C1_OneCallWithShapedBody ==
    (pc = "done" /\ GatewayOperation /\ WellFormed
       /\ result[1].kind = "return") =>
        /\ Len(wire) = 1
        /\ response # <<>>
        /\ result[1].value = response[1]
        /\ op.name \in BodyOperations =>
             /\ "json" \in DOMAIN wire[1].request_args
             /\ wire[1].request_args.json = call.json

\* the verbs of the claim, as the inputs that name them in any letter case
NoBodyMethods ==
    { GET, <<"g", "e", "t">>, <<"G", "e", "t">>, DELETE,
      <<"H", "E", "A", "D">>, <<"o", "p", "t", "i", "o", "n", "s">> }

\* C2: in make_request, for GET, DELETE, HEAD and OPTIONS in any letter case
\* the supplied data travels as query parameters and the request has no JSON
\* body; for every other method the supplied data is the JSON body and the
\* supplied query parameters are still attached.
C2_DataPlacement ==
    \A i \in 1..Len(wire) :
        LET ra == wire[i].request_args
        IN  IF mr.method \in NoBodyMethods
            THEN /\ "json" \notin DOMAIN ra
                 /\ \A key \in DOMAIN mr.data.o :
                        /\ ra.params.k = "obj"
                        /\ key \in DOMAIN ra.params.o
                        /\ ra.params.o[key] = mr.data.o[key]
            ELSE /\ "json" \in DOMAIN ra
                 /\ ra.json = mr.data
                 /\ \A key \in DOMAIN mr.params.o :
                        /\ "params" \in DOMAIN ra
                        /\ key \in DOMAIN ra.params.o
                        /\ ra.params.o[key] = mr.params.o[key]

\* a mixed-case "Get" with data and params was sent
C2_Witness ==
    /\ pc = "done"
    /\ Len(wire) = 1
    /\ mr.method = <<"G", "e", "t">>
    /\ Truthy(mr.data)
    /\ Truthy(mr.params)

\* C3: no Gateway operation raises to its caller; every invocation ends by
\* returning a value.
C3_NeverRaises ==
    (pc = "done" /\ GatewayOperation) => result[1].kind = "return"

\* C4: update_work_package and execute_custom_action without a lock_version
\* are rejected locally: the operation returns before it hands anything to
\* make_request, and no network call is made; with a lock_version, it is
\* sent verbatim as lockVersion in the outgoing body.  (Stated of the
\* invocations that return; those that raise are C3's.)
C4_LockVersionRequired ==
    ( /\ pc = "done"
      /\ op.name \in {"update_work_package", "execute_custom_action"}
      /\ result[1].kind = "return" ) =>
        IF args.lock_version = JNull
        THEN call = <<>> /\ wire = <<>>
        ELSE /\ Len(wire) = 1
             /\ "json" \in DOMAIN wire[1].request_args
             /\ wire[1].request_args.json.k = "obj"
             /\ "lockVersion" \in DOMAIN wire[1].request_args.json.o
             /\ wire[1].request_args.json.o.lockVersion = args.lock_version

\* C5: a non-2xx response yields an "HTTP error" record with the status and
\* the raw text, a transport failure yields a "Request failed" record with
\* no status, and no other outcome yields a record of either kind.
C5_ErrorKindsDistinct ==
    (response # <<>> /\ upstream # <<>>) =>
        LET v == response[1]
            rejected == upstream.kind = "response"
                        /\ upstream.status \notin 200..299
            unreachable == upstream.kind = "transport"
        IN  /\ rejected =>
                /\ IsErrorRecord(v)
                /\ v.o.error = JStr("HTTP error")
                /\ "status" \in DOMAIN v.o
                /\ v.o.status = JInt(upstream.status)
                /\ v.o.details = JStr(upstream.text)
            /\ unreachable =>
                /\ IsErrorRecord(v)
                /\ v.o.error = JStr("Request failed")
                /\ "status" \notin DOMAIN v.o
            /\ (IsErrorRecord(v) /\ v.o.error = JStr("HTTP error")) => rejected
            /\ (IsErrorRecord(v) /\ v.o.error = JStr("Request failed"))
                  => unreachable

\* C6: a 2xx response with an empty body is a success, never an error record.
C6_EmptyBodyIsSuccess ==
    ( /\ response # <<>>
      /\ upstream # <<>>
      /\ upstream.kind = "response"
      /\ upstream.status \in 200..299
      /\ upstream.text = "" ) => ~IsErrorRecord(response[1])

\* C7: an optional input left at None never appears as a key of the body or
\* the query parameters the operation hands over.  (list_work_packages, whose
\* "filters" key always carries a default, is left to the claim about it.)
C7_OmittedNeverSent ==
    (call # <<>> /\ GatewayOperation /\ op.name # "list_work_packages") =>
        \A p \in OptionalArgs : args[p] = JNull => OutKey[p] \notin ShapedKeys

\* C8: an optional input that was supplied, be it False, 0 or "", has its key
\* in the body or the query parameters the operation hands over.
C8_FalsyStillSent ==
    (call # <<>> /\ GatewayOperation) =>
        \A p \in OptionalArgs : args[p] # JNull => OutKey[p] \in ShapedKeys

\* C9 as stated: every make_request invocation that has returned made
\* exactly one network call.
C9_ExactlyOneCall == response # <<>> => Len(wire) = 1

\* the methods of the model that name a verb of the HTTP client
SupportedMethods == Methods \ { <<"T", "R", "A", "C", "E">> }

\* C9: an invocation makes at most one network call and at most one file
\* read, never a second attempt; a make_request that has returned made
\* exactly one call when its method names a verb of the client, else none.
C9_AtMostOneCall ==
    /\ Len(wire) <= 1
    /\ fileReads <= 1
    /\ response # <<>> => (Len(wire) = 1 <=> mr.method \in SupportedMethods)

\* an operation ended after its single call failed in the transport
C9_Witness ==
    /\ pc = "done"
    /\ GatewayOperation
    /\ Len(wire) = 1
    /\ upstream.kind = "transport"
    /\ result[1].kind = "return"

\* C10: whatever a Gateway operation returns, on success and on every failure
\* path, is a string holding serialized JSON.
C10_ReturnsJsonText ==
    (pc = "done" /\ GatewayOperation /\ result[1].kind = "return") =>
        result[1].type = "str" /\ result[1].format = "json"

UploadOperations == {"create_attachment", "create_work_package_attachment"}

\* C11: an attachment upload whose file_path does not exist ends by returning
\* a value (the local validation error), with no network call and no file
\* read: nothing in the operation fails before that check.
C11_MissingFileShortCircuits ==
    ( /\ pc = "done"
      /\ op.name \in UploadOperations
      /\ args.file_path = JStr("/tmp/missing.bin") ) =>
        /\ result[1].kind = "return"
        /\ wire = <<>>
        /\ fileReads = 0

\* the query parameter param is a string that json.loads decodes to v
DecodesTo(param, v) ==
    /\ param \in DOMAIN Query
    /\ Query[param].k = "str"
    /\ JsonLoads(Query[param].s) = [ok |-> TRUE, value |-> v]

\* the filter get_work_package_file_links is to build for a storage name
StorageFilter(name) ==
    JList(<<JObj([storage |-> JObj([operator |-> JStr("="),
                                    values |-> JList(<<name>>)])])>>)

\* C12: get_project_work_packages (filters, sort_by) and
\* get_work_package_file_links (storage filter) hand over their structured
\* input as a JSON string that, decoded once, is the original structure.
C12_FiltersEncodedOnce ==
    (pc # "idle" /\ op.name = "get_project_work_packages" =>
        /\ args.filters # JNull => DecodesTo("filters", args.filters)
        /\ args.sort_by # JNull => DecodesTo("sortBy", args.sort_by))
    /\ (pc # "idle" /\ op.name = "get_work_package_file_links" =>
          (Truthy(args.storage_filter) =>
              DecodesTo("filters", StorageFilter(args.storage_filter))))

\* the relationship inputs of an operation: the key each travels under in
\* "_links" and the resource path its href starts with
Relationships(name) ==
    CASE name \in {"create_work_package", "update_work_package"} ->
             [type_id     |-> <<"type", "/api/v3/types/">>,
              priority_id |-> <<"priority", "/api/v3/priorities/">>,
              status_id   |-> <<"status", "/api/v3/statuses/">>,
              assignee_id |-> <<"assignee", "/api/v3/users/">>]
      [] name = "add_work_package_watcher" ->
             [user_id |-> <<"user", "/api/v3/users/">>]
      [] name = "execute_custom_action" ->
             [work_package_id |-> <<"workPackage", "/api/v3/work_packages/">>]
      [] OTHER -> EmptyDict

\* C13: every relationship supplied to create_work_package,
\* update_work_package, add_work_package_watcher or execute_custom_action is
\* in the body under "_links" as {href: <resource path><id>}, never as the
\* bare id, and "_links" is there exactly when a relationship was supplied.
C13_RelationshipsAreLinks ==
    (pc # "idle" /\ DOMAIN Relationships(op.name) # {}) =>
        LET rel == Relationships(op.name)
            supplied == { p \in DOMAIN rel : args[p] # JNull }
        IN  /\ \A p \in supplied :
                  /\ rel[p][1] \in DOMAIN Links
                  /\ Links[rel[p][1]] = Href(rel[p][2], args[p])
                  /\ rel[p][1] \in DOMAIN Body => Body[rel[p][1]] # args[p]
            /\ "_links" \in DOMAIN Body <=> supplied # {}

\* the rich-text inputs and the body key each travels under
RichText ==
    [description |-> "description", status_explanation |-> "statusExplanation",
     comment_text |-> "comment", new_comment_text |-> "comment"]

\* C14: a rich-text input in the body an operation hands over is an object
\* whose "raw" is the caller's string unchanged, with at most a "format"
\* next to it; it is never the bare string.
C14_RichTextIsWrapped ==
    (call # <<>> /\ GatewayOperation) =>
        \A p \in DOMAIN args \cap DOMAIN RichText :
            RichText[p] \in DOMAIN Body =>
                LET sent == Body[RichText[p]]
                IN  /\ sent.k = "obj"
                    /\ "raw" \in DOMAIN sent.o
                    /\ sent.o.raw = args[p]
                    /\ DOMAIN sent.o \subseteq {"raw", "format"}

\* update_project has handed over a body with a description and a status
\* explanation
C14_Witness ==
    /\ call # <<>>
    /\ op.name = "update_project"
    /\ args.description = JStr("x")
    /\ args.status_explanation = JStr("")
    /\ {"description", "statusExplanation"} \subseteq DOMAIN Body

\* C15: an upload of an existing file reads it once and sends one request
\* whose payload is the two-part "files" mapping (metadata and file) and
\* whose headers have no Content-Type key.
C15_MultipartUpload ==
    ( /\ pc = "done"
      /\ op.name \in UploadOperations
      /\ args.file_path = JStr("/tmp/report.pdf") ) =>
        /\ fileReads = 1
        /\ Len(wire) = 1
        /\ "files" \in DOMAIN wire[1].request_args
        /\ {"metadata", "file"} \subseteq DOMAIN wire[1].request_args.files.o
        /\ "Content-Type" \notin DOMAIN wire[1].request_args.headers.o

----------------------------------------------------------------------------
(* Properties of the catalog lookup, checked under CatalogSpec *)

\* the paths of the rows a search_endpoint handed back, in order
ReturnedPaths ==
    LET items == lookup.result[1].value.a
    IN  [i \in 1..Len(items) |->
            IF lookup.name = "search_endpoint"
            THEN items[i].o.path.s ELSE items[i].a[1].s]

\* the paths of the catalog that hold the query as a literal substring
LiteralMatches ==
    LET rows == SelectSeq(catalog,
                          LAMBDA row : Contains(row.path, lookup.query))
    IN  [i \in 1..Len(rows) |-> rows[i].path]

\* C16: search_endpoint returns exactly the rows whose path holds the query
\* as a case-sensitive literal substring, no character being a wildcard.
C16_LiteralSubstringMatch ==
    ( /\ lookup.pc = "done"
      /\ lookup.name \in {"search_endpoint", "query_db.search_endpoint"} ) =>
        /\ lookup.result[1].kind = "return"
        /\ ReturnedPaths = LiteralMatches

\* what query_api's returned text decodes to
Answer == JsonLoads(lookup.result[1].value.s).value

NoMatch == Select(catalog, lookup.query) = <<>>

\* C17: a lookup matching no path, search_endpoint or query_api,
\* hands back an empty list of matches and no error record.
C17_NoMatchIsEmptyList ==
    (lookup.pc = "done" /\ NoMatch) =>
        /\ lookup.result[1].kind = "return"
        /\ lookup.name = "search_endpoint" =>
              lookup.result[1].value = JList(<<>>)
        /\ lookup.name = "query_api" =>
              /\ ~IsErrorRecord(Answer)
              /\ Answer \in {JList(<<>>), JObj([available_paths |-> JList(<<>>)])}

\* the entries search_endpoint returned are the matching rows, one for one,
\* the text columns as stored and the JSON columns decoded: encoding a
\* decoded column again gives the stored text
EntriesAreRows ==
    (lookup.pc = "done" /\ lookup.name = "search_endpoint") =>
        LET rows == Select(catalog, lookup.query)
            entries == lookup.result[1].value.a
        IN  /\ lookup.result[1].kind = "return"
            /\ Len(entries) = Len(rows)
            /\ \A i \in 1..Len(rows) :
                  /\ DOMAIN entries[i].o =
                        {"path", "method", "description", "request_body",
                         "responses"}
                  /\ entries[i].o.path = JStr(rows[i].path)
                  /\ entries[i].o.method = JStr(rows[i].method)
                  /\ entries[i].o.description = JStr(rows[i].description)
                  /\ IF rows[i].request_body = "None"
                     THEN entries[i].o.request_body = JNull
                     ELSE JsonDumps(entries[i].o.request_body)
                            = rows[i].request_body
                  /\ JsonDumps(entries[i].o.responses) = rows[i].responses

\* C18: the lookup returns one entry per matching row, with path, method
\* and description unchanged, request_body decoded (None for the text
\* "None") and responses decoded, and no step changes the catalog.
C18_EntriesDeserialized ==
    [][catalog' = catalog /\ EntriesAreRows']_vars

\* a search for "projects" returned two entries, one without request body
C18_Witness ==
    /\ lookup.pc = "done"
    /\ lookup.name = "search_endpoint"
    /\ lookup.query = "projects"
    /\ Len(lookup.result[1].value.a) = 2
    /\ lookup.result[1].value.a[1].o.request_body = JNull
    /\ lookup.result[1].value.a[2].o.request_body # JNull

----------------------------------------------------------------------------
(* Properties of the conversation, checked under ChatSpec *)

\* C19: the conversation is sequential and bounded: at most one participant
\* has a turn in progress, and a turn is in progress only while the manager
\* waits for a reply; the exchange takes at most 10 rounds and every
\* conversation that was started terminates.
C19_SequentialAndBounded ==
    /\ [](/\ Cardinality(chat.busy) <= 1
          /\ chat.busy \subseteq Participants
          /\ chat.busy # {} <=> chat.pc = "reply"
          /\ chat.round <= 10)
    /\ (chat.pc # "idle") ~> (chat.pc = "terminated")

\* the message carries text holding the phrase in some letter case
SaysTaskComplete(msg) ==
    /\ "content" \in DOMAIN msg
    /\ msg.content.k = "str"
    /\ \E i \in 1..(Len(msg.content.s) - 12) :
          Lowered(SubSeq(msg.content.s, i, i + 12)) = "task complete"

\* a message is in the conversation and it holds the phrase
SentinelSeen == chat.pc # "idle" /\ SaysTaskComplete(chat.message)

\* no new message and no tool run once the phrase was seen; a speaker
\* looking at a message without content goes on to reply
SentinelStep ==
    /\ SentinelSeen =>
          /\ chat.message' = chat.message
          /\ chat.executed' = chat.executed
          /\ chat.pc' \in {"select", "reply", "terminated"}
    /\ (chat.pc = "reply" /\ ~Truthy(Get(chat.message, "content"))) =>
          chat.pc' = "append"

\* C20: once a message holds "task complete" in any letter case the exchange
\* terminates with no further agent message and no tool execution; a message
\* whose content is missing or None does not end the exchange.
C20_SentinelTerminates ==
    /\ [][SentinelStep]_vars
    /\ SentinelSeen ~> (chat.pc = "terminated")

\* a mixed-case sentinel that came with a tool request ended the exchange
\* before the round limit, the tool never run
C20_Witness ==
    /\ chat.pc = "terminated"
    /\ chat.round < max_round
    /\ chat.message = Message(assistantGM, JStr("Done. Task Complete."), TRUE)

----------------------------------------------------------------------------
(* Further properties of the Gateway, checked under Spec *)

DeleteOperations == {"remove_work_package_watcher", "delete_attachment"}

\* the returned sentence is the operation's success message
IsSuccessMessage(r) ==
    Len(r.text) >= 12 /\ SubSeq(r.text, 1, 12) = "Successfully"

\* C22: remove_work_package_watcher and delete_attachment return their
\* "Successfully ..." message only when the upstream DELETE succeeded: an
\* error record from make_request never comes back inside a success message.
\* (Stated of the invocations that return; those that raise are C3's.)
C22_SuccessOrError ==
    ( /\ pc = "done"
      /\ op.name \in DeleteOperations
      /\ result[1].kind = "return" ) =>
        /\ (response # <<>> /\ IsErrorRecord(response[1])) =>
              ~IsSuccessMessage(result[1])
        /\ IsSuccessMessage(result[1]) =>
              /\ upstream # <<>>
              /\ upstream.kind = "response"
              /\ IsSuccess(upstream.status)

\* C25: a make_request call leaves everything its caller passed in as it
\* was: the header mapping, data and params after the call are those the
\* caller built before it.
C25_ArgumentsUnchanged ==
    (pc = "done" /\ op.name = "make_request") =>
        /\ call.headers = args.headers
        /\ call.data = args.data
        /\ call.params = args.params

UpdateFields ==
    {"name", "description", "identifier", "public", "active",
     "status_explanation"}

\* the body update_project is to send: exactly the supplied fields
SuppliedFields ==
    LET plain == {"name", "identifier", "public", "active"} 
        key(p) == IF p = "status_explanation" THEN "statusExplanation" ELSE p
        given == { p \in UpdateFields : args[p] # JNull }
    IN  [k \in { key(p) : p \in given } |->
            LET p == CHOOSE q \in given : key(q) = k
            IN  IF p \in plain THEN args[p] ELSE JObj([raw |-> args[p].s])]

\* C26: update_project with no field supplied returns the "No update fields
\* provided" message without a network call; with a field supplied, be it
\* False or "", it sends one PATCH whose body holds exactly those fields.
C26_UpdateProjectFields ==
    (pc = "done" /\ op.name = "update_project") =>
        IF \A p \in UpdateFields : args[p] = JNull
        THEN /\ wire = <<>>
             /\ result[1].kind = "return"
             /\ result[1].text = "No update fields provided. Please specify at least one field to change."
        ELSE /\ Len(wire) = 1
             /\ wire[1].verb = "patch"
             /\ "json" \in DOMAIN wire[1].request_args
             /\ wire[1].request_args.json = JObj(SuppliedFields)

\* the default filter of list_work_packages
OpenStatusFilter ==
    JObj([status_id |-> JObj([operator |-> JStr("o"), values |-> JNull])])

\* the entries of the caller's filters: the items of a list, and of a dict
\* one {key: value} entry per key
FilterEntries(v) ==
    IF v.k = "list" THEN v.a
    ELSE [i \in 1..Len(KeysOf(v.o)) |->
            JObj(KeysOf(v.o)[i] :> v.o[KeysOf(v.o)[i]])]

\* C27: list_work_packages sends as "filters" the JSON text of the default
\* open-status filter alone (filters None), of the empty list (filters []),
\* or of the default followed by the caller's entries unchanged and in
\* order, for a list and for a dict; the other query parameters are fixed.
C27_EffectiveFilters ==
    (call # <<>> /\ op.name = "list_work_packages") =>
        LET expected ==
                IF args.filters = JNull THEN <<OpenStatusFilter>>
                ELSE IF args.filters = JList(<<>>) THEN <<>>
                ELSE <<OpenStatusFilter>> \o FilterEntries(args.filters)
            sent == call.params.o
        IN  /\ DOMAIN sent = {"offset", "pageSize", "filters", "sortBy",
                              "showSums", "timestamps"}
            /\ sent.filters = JStr(JsonDumps(JList(expected)))
            /\ sent.offset = JInt(1)
            /\ sent.pageSize = JInt(20)
            /\ sent.sortBy = JStr("[[\"id\", \"asc\"]]")
            /\ sent.showSums = JStr("false")
            /\ sent.timestamps = JStr("PT0S")

\* the keys of a dict argument, none for None
Keys(v) == IF v.k = "obj" THEN DOMAIN v.o ELSE {}

\* C28: for GET, DELETE, HEAD and OPTIONS no query input is lost: every key
\* of params and every key of data is sent as a query parameter, and with
\* data None or empty the query parameters are params as supplied.
C28_NoQueryInputLost ==
    (op.name = "make_request" /\ mr # <<>> /\ mr.method \in NoBodyMethods) =>
        \A i \in 1..Len(wire) :
            LET sent == wire[i].request_args.params
            IN  /\ \A key \in Keys(mr.params) \cup Keys(mr.data) :
                      key \in Keys(sent)
                /\ ~Truthy(mr.data) => sent = mr.params

\* C29: make_request raises for no method string; for a method that is not
\* a verb of the HTTP client it returns a "Request failed" record without a
\* status field, and nothing is sent.
C29_UnsupportedMethod ==
    (pc = "done" /\ op.name = "make_request") =>
        /\ result[1].kind = "return"
        /\ mr.method \notin SupportedMethods =>
              /\ wire = <<>>
              /\ upstream = <<>>
              /\ result[1].value.k = "obj"
              /\ DOMAIN result[1].value.o = {"error", "details"}
              /\ result[1].value.o.error = JStr("Request failed")

\* make_request was called with TRACE and has returned
C29_Witness ==
    /\ pc = "done"
    /\ op.name = "make_request"
    /\ mr.method = <<"T", "R", "A", "C", "E">>
    /\ IsErrorRecord(result[1].value)

----------------------------------------------------------------------------
(* A property of make_request's waiting, checked under RequestSpec *)

\* C24: a make_request call whose upstream does not answer within the 30
\* seconds of the timeout returns a "Request failed" record without status
\* field, and every call in flight is eventually completed: none stays
\* pending forever.
C24_TimeoutCompletes ==
    /\ [](/\ elapsed <= Timeout
          /\ ( /\ response # <<>>
               /\ upstream # <<>>
               /\ upstream.exc = "ReadTimeout" ) =>
                 /\ response[1].k = "obj"
                 /\ DOMAIN response[1].o = {"error", "details"}
                 /\ response[1].o.error = JStr("Request failed"))
    /\ (pc = "await") ~> (pc = "done")

----------------------------------------------------------------------------
(* A property of invocations served at once, checked under ConcurrentSpec *)

\* what the invocation sends and returns when it is the only one served,
\* for the answer it got
Alone(name, a, answer) ==
    IF name = "run_api"
    THEN [wire |-> <<>>, result |-> <<Raised("UnboundLocalError")>>]
    ELSE [wire |->
            << [verb |-> IF name = "view_project" THEN "get" ELSE "delete",
                url |-> Url(TaskPath(name, a)),
                request_args |->
                    ("headers" :> JObj(Put(JsonHeaders.o, "User-Agent",
                                           JStr(USER_AGENT))))
                    @@ ("timeout" :> JInt(Timeout))
                    @@ ("params" :> JNull)] >>,
          result |->
            IF answer = <<>> THEN <<>>
            ELSE << ReturnValue(TaskOperation(name, a), Normalise(answer)) >>]

\* C21: however the invocations served at once interleave, each one sends
\* the request and returns the result it would send and return alone for
\* the same upstream answer, and none of them changes the module's names.
C21_Independent ==
    /\ server.module = Module
    /\ \A t \in Tasks :
          LET task == server.tasks[t]
              answer == IF task.pc = "done" THEN task.upstream ELSE <<>>
          IN  task.pc \in {"await", "respond", "return", "done"} =>
                /\ task.wire = Alone(task.name, task.args, answer).wire
                /\ task.result = Alone(task.name, task.args, answer).result

\* one invocation has returned an upstream answer while another, started
\* after a run_api, still waits for its own
C21_Witness ==
    /\ server.tasks[1].pc = "done"
    /\ server.tasks[1].name = "view_project"
    /\ server.tasks[1].upstream = HttpResponse(200, "{\"id\": 1}")
    /\ server.tasks[2].pc = "await"
    /\ server.tasks[2].name = "remove_work_package_watcher"

----------------------------------------------------------------------------
(* Properties of the Orchestrator's tool functions, checked under ToolSpec *)

\* the call in hand failed: no answer, a status outside 200..299, or a body
\* that is not JSON
ToolFailed ==
    LET answer == toolCall.answer[1]
    IN  \/ answer.kind = "transport"
        \/ ~IsSuccess(answer.status)
        \/ ~JsonLoads(answer.text).ok

\* C23: a tool function makes exactly one POST per invocation, never a
\* second one, and whatever the Gateway does the function returns: no
\* exception leaves it, and after a failure the returned value is a dict.
C23_OnePostFailureReturned ==
    /\ Len(toolCall.posts) <= 1
    /\ toolCall.pc \in {"posted", "answered", "done"} =>
         /\ Len(toolCall.posts) = 1
         /\ toolCall.posts[1].url = PM_BASE_URL \o "/" \o toolCall.name
    /\ toolCall.pc = "done" =>
         /\ toolCall.result[1].kind = "return"
         /\ ToolFailed => toolCall.result[1].value.k = "obj"

\* list_projects got a 200 answer with an empty body, and returned
C23_Witness ==
    /\ toolCall.pc = "done"
    /\ toolCall.name = "list_projects"
    /\ toolCall.answer[1] = HttpResponse(200, "")
    /\ Len(toolCall.posts) = 1
    /\ IsErrorRecord(toolCall.result[1].value)

\* C30: when the Gateway answers with a status outside 200..299, the tool
\* function returns an error record, a dict with the key 'error'.
C30_NonSuccessIsErrorRecord ==
    (/\ toolCall.pc = "done"
     /\ toolCall.answer[1].kind = "response"
     /\ ~IsSuccess(toolCall.answer[1].status))
    => /\ toolCall.result[1].kind = "return"
       /\ IsErrorRecord(toolCall.result[1].value)

====
